---- MODULE Spec2Model ----
(***************************************************************************)
(* Model of the collector repository: the CSV importer                     *)
(* (collector/services/importer.py), the image helpers                     *)
(* (collector/services/images.py), the collector API's card endpoints      *)
(* (collector/api/routes.py), the seeding script (seed.py) and the older   *)
(* backend application (backend/app).                                      *)
(*                                                                         *)
(* Python strings are sequences of one-character strings, so that strip,   *)
(* split and the JSON conversions are computed and not assumed.  Python's  *)
(* None is the value None below.                                           *)
(***************************************************************************)
EXTENDS Integers, Sequences, FiniteSets, TLC

\* ------------------------------------------------------------------ bounds
\* Longest CSV file (data rows) an import reads.
MaxRows == 3
\* Most records the older backend's store holds.
MaxLegacyCards == 3

\* The longest list of tokens in a list cell.
MaxTokens == 2

\* Most attack columns in a row.
MaxAttackColumns == 3

\* ------------------------------------------------------------------- text
\* Python's None.  No text of the model contains this element.
None == <<"<None>">>

Whitespace == {" ", "\t", "\n", "\r"}

DigitChars == {"0", "1", "2", "3", "4", "5", "6", "7", "8", "9"}

LowerChars ==
  {"a", "b", "c", "d", "e", "f", "g", "h", "i", "j", "k", "l", "m",
   "n", "o", "p", "q", "r", "s", "t", "u", "v", "w", "x", "y", "z"}

UpperChars ==
  {"A", "B", "C", "D", "E", "F", "G", "H", "I", "J", "K", "L", "M",
   "N", "O", "P", "Q", "R", "S", "T", "U", "V", "W", "X", "Y", "Z"}

\* str.strip(): leading and trailing whitespace removed.
RECURSIVE LStrip(_)
LStrip(s) ==
  IF s = <<>> THEN <<>>
  ELSE IF Head(s) \in Whitespace THEN LStrip(Tail(s)) ELSE s

RECURSIVE RStrip(_)
RStrip(s) ==
  IF s = <<>> THEN <<>>
  ELSE IF s[Len(s)] \in Whitespace THEN RStrip(SubSeq(s, 1, Len(s) - 1)) ELSE s

strip(s) == RStrip(LStrip(s))

\* Python truthiness of an Optional[str].
Truthy(v) == v # None /\ v # <<>>

\* Python's `a or b` on Optional[str] values.
Or(a, b) == IF Truthy(a) THEN a ELSE b

\* str.split(sep) for a one-character separator: the list of pieces.
RECURSIVE SplitAcc(_, _, _)
SplitAcc(s, sep, cur) ==
  IF s = <<>> THEN <<cur>>
  ELSE IF Head(s) = sep THEN <<cur>> \o SplitAcc(Tail(s), sep, <<>>)
  ELSE SplitAcc(Tail(s), sep, Append(cur, Head(s)))

split(s, sep) == SplitAcc(s, sep, <<>>)

\* The concatenation of a sequence of texts.
RECURSIVE Concat(_)
Concat(ss) == IF ss = <<>> THEN <<>> ELSE Head(ss) \o Concat(Tail(ss))

Range(s) == {s[i] : i \in DOMAIN s}

\* ------------------------------------------------------------ Python dict
\* A dict keeps its keys in insertion order; a key set again keeps its place.
EmptyDict == [keys |-> <<>>, val |-> [k \in {} |-> None]]

Has(d, k) == k \in Range(d.keys)

\* dict.get(k): None when the key is absent.
Get(d, k) == IF Has(d, k) THEN d.val[k] ELSE None

DictSet(d, k, v) ==
  [keys |-> IF Has(d, k) THEN d.keys ELSE Append(d.keys, k),
   val  |-> [x \in Range(d.keys) \cup {k} |-> IF x = k THEN v ELSE d.val[x]]]

\* ------------------------------------------------------------------- JSON
Quote == "\""

Backslash == "\\"

\* json.dumps of one str: quotes and backslashes escaped (ensure_ascii=False
\* leaves every other character of the model's alphabet as it is).
RECURSIVE JsonEscape(_)
JsonEscape(s) ==
  IF s = <<>> THEN <<>>
  ELSE IF Head(s) \in {Quote, Backslash}
       THEN <<Backslash, Head(s)>> \o JsonEscape(Tail(s))
       ELSE <<Head(s)>> \o JsonEscape(Tail(s))

JsonString(s) == <<Quote>> \o JsonEscape(s) \o <<Quote>>

\* ", ".join(parts)
RECURSIVE JoinComma(_)
JoinComma(parts) ==
  IF parts = <<>> THEN <<>>
  ELSE IF Len(parts) = 1 THEN parts[1]
  ELSE parts[1] \o <<",", " ">> \o JoinComma(Tail(parts))

\* json.dumps(list_of_str, ensure_ascii=False)
DumpsList(items) ==
  <<"[">> \o JoinComma([i \in DOMAIN items |-> JsonString(items[i])]) \o <<"]">>

\* json.dumps of one attack dict: {"attr": "value", ...} in key order.
DumpsDict(d) ==
  <<"{">> \o
  JoinComma([i \in DOMAIN d.keys |->
               JsonString(d.keys[i]) \o <<":", " ">> \o JsonString(d.val[d.keys[i]])]) \o
  <<"}">>

\* json.dumps(list_of_dicts, ensure_ascii=False)
DumpsDicts(ds) ==
  <<"[">> \o JoinComma([i \in DOMAIN ds |-> DumpsDict(ds[i])]) \o <<"]">>

\* The pieces of an array literal's inside, cut at the commas outside quotes.
RECURSIVE SplitTop(_, _, _)
SplitTop(s, inq, cur) ==
  IF s = <<>> THEN <<cur>>
  ELSE IF Head(s) = Quote THEN SplitTop(Tail(s), ~inq, Append(cur, Head(s)))
  ELSE IF Head(s) = "," /\ ~inq THEN <<cur>> \o SplitTop(Tail(s), FALSE, <<>>)
  ELSE SplitTop(Tail(s), inq, Append(cur, Head(s)))

IsJsonNumber(e) ==
  /\ e # <<>>
  /\ \A i \in DOMAIN e : e[i] \in DigitChars
  /\ (Len(e) > 1 => e[1] # "0")

IsJsonString(e) ==
  /\ Len(e) >= 2
  /\ e[1] = Quote
  /\ e[Len(e)] = Quote
  /\ \A i \in 2..(Len(e) - 1) : e[i] \notin {Quote, Backslash}

\* A JSON scalar the model reads: a string without escapes, a natural number
\* or a literal.  str is Python's str() of the decoded value.
JsonScalar(e) ==
  IF IsJsonString(e) THEN [ok |-> TRUE, str |-> SubSeq(e, 2, Len(e) - 1)]
  ELSE IF IsJsonNumber(e) THEN [ok |-> TRUE, str |-> e]
  ELSE IF e = <<"t", "r", "u", "e">> THEN [ok |-> TRUE, str |-> <<"T", "r", "u", "e">>]
  ELSE IF e = <<"f", "a", "l", "s", "e">> THEN [ok |-> TRUE, str |-> <<"F", "a", "l", "s", "e">>]
  ELSE IF e = <<"n", "u", "l", "l">> THEN [ok |-> TRUE, str |-> <<"N", "o", "n", "e">>]
  ELSE [ok |-> FALSE, str |-> <<>>]

\* json.loads(v) for a stripped, non-empty v, as far as _parse_list looks at
\* it: ok is FALSE for a JSONDecodeError, isList says the value is a list,
\* items are the str() of its elements.  The texts read as JSON are the flat
\* array of scalars, the scalar and the empty object; every other text is a
\* decode error.
JsonLoads(v) ==
  IF v[1] = "[" /\ v[Len(v)] = "]" /\ Len(v) >= 2
  THEN LET inner  == SubSeq(v, 2, Len(v) - 1)
           pieces == SplitTop(inner, FALSE, <<>>)
           elems  == [i \in DOMAIN pieces |-> JsonScalar(strip(pieces[i]))]
       IN  IF strip(inner) = <<>>
           THEN [ok |-> TRUE, isList |-> TRUE, items |-> <<>>]
           ELSE IF \A i \in DOMAIN elems : elems[i].ok
           THEN [ok |-> TRUE, isList |-> TRUE,
                 items |-> [i \in DOMAIN elems |-> elems[i].str]]
           ELSE [ok |-> FALSE, isList |-> FALSE, items |-> <<>>]
  ELSE IF JsonScalar(v).ok \/ (v[1] = "{" /\ v[Len(v)] = "}" /\ strip(SubSeq(v, 2, Len(v) - 1)) = <<>> /\ Len(v) >= 2)
  THEN [ok |-> TRUE, isList |-> FALSE, items |-> <<>>]
  ELSE [ok |-> FALSE, isList |-> FALSE, items |-> <<>>]

\* The texts of a list whose strip() is not empty, in order.
RECURSIVE NonBlank(_)
NonBlank(ss) ==
  IF ss = <<>> THEN <<>>
  ELSE IF strip(Head(ss)) # <<>> THEN <<Head(ss)>> \o NonBlank(Tail(ss))
  ELSE NonBlank(Tail(ss))

\* _parse_list: isNone is TRUE where the code returns None.
NoList == [isNone |-> TRUE, items |-> <<>>]

_parse_list(value) ==
  IF value = None THEN NoList
  ELSE LET v == strip(value) IN
    IF v = <<>> THEN NoList
    ELSE LET loaded == JsonLoads(v)
             pieces == split(v, "|")
             parsed == IF loaded.ok THEN loaded.items
                       ELSE NonBlank([i \in DOMAIN pieces |-> strip(pieces[i])])
         IN  IF loaded.ok /\ ~loaded.isList THEN NoList
             ELSE [isNone |-> FALSE, items |-> NonBlank(parsed)]

\* json.dumps(_parse_list(text) or [], ensure_ascii=False)
ListColumn(text) == DumpsList(_parse_list(text).items)

\* ----------------------------------------------------------- header names
\* The column names import_csv reads, as texts.
H ==
  [set_id |-> <<"s", "e", "t", "_", "i", "d">>,
   setId |-> <<"s", "e", "t", "I", "d">>,
   number |-> <<"n", "u", "m", "b", "e", "r">>,
   card_number |-> <<"c", "a", "r", "d", "_", "n", "u", "m", "b", "e", "r">>,
   name |-> <<"n", "a", "m", "e">>,
   nome |-> <<"n", "o", "m", "e">>,
   hp |-> <<"h", "p">>,
   hp_str |-> <<"h", "p", "_", "s", "t", "r">>,
   types |-> <<"t", "y", "p", "e", "s">>,
   type |-> <<"t", "y", "p", "e">>,
   rarity |-> <<"r", "a", "r", "i", "t", "y">>,
   set_name |-> <<"s", "e", "t", "_", "n", "a", "m", "e">>,
   set |-> <<"s", "e", "t">>,
   artist |-> <<"a", "r", "t", "i", "s", "t">>,
   ability_name |-> <<"a", "b", "i", "l", "i", "t", "y", "_", "n", "a", "m", "e">>,
   abilities_0_name |-> <<"a", "b", "i", "l", "i", "t", "i", "e", "s", "_", "0", "_", "n", "a", "m", "e">>,
   ability_text |-> <<"a", "b", "i", "l", "i", "t", "y", "_", "t", "e", "x", "t">>,
   abilities_0_text |-> <<"a", "b", "i", "l", "i", "t", "i", "e", "s", "_", "0", "_", "t", "e", "x", "t">>,
   weaknesses |-> <<"w", "e", "a", "k", "n", "e", "s", "s", "e", "s">>,
   resistances |-> <<"r", "e", "s", "i", "s", "t", "a", "n", "c", "e", "s">>,
   retreat_cost |-> <<"r", "e", "t", "r", "e", "a", "t", "_", "c", "o", "s", "t">>,
   retreat |-> <<"r", "e", "t", "r", "e", "a", "t">>,
   image_url |-> <<"i", "m", "a", "g", "e", "_", "u", "r", "l">>,
   images_small |-> <<"i", "m", "a", "g", "e", "s", "_", "s", "m", "a", "l", "l">>,
   image_path |-> <<"i", "m", "a", "g", "e", "_", "p", "a", "t", "h">>,
   Imagem |-> <<"I", "m", "a", "g", "e", "m">>,
   imagem |-> <<"i", "m", "a", "g", "e", "m">>,
   attacks_0_name |-> <<"a", "t", "t", "a", "c", "k", "s", "_", "0", "_", "n", "a", "m", "e">>]

AttacksPrefix == <<"a", "t", "t", "a", "c", "k", "s", "_">>

\* --------------------------------------------------------- string helpers
StartsWith(s, p) == Len(s) >= Len(p) /\ SubSeq(s, 1, Len(p)) = p

\* The first position of character c in s, 0 when it is not there.
FirstIndex(s, c) ==
  IF \E i \in DOMAIN s : s[i] = c
  THEN CHOOSE i \in DOMAIN s : s[i] = c /\ \A j \in 1..(i - 1) : s[j] # c
  ELSE 0

\* key.split("_", 2): at most two cuts, the rest kept whole.
SplitMax2(key) ==
  LET i1 == FirstIndex(key, "_") IN
  IF i1 = 0 THEN <<key>>
  ELSE LET a    == SubSeq(key, 1, i1 - 1)
           rest == SubSeq(key, i1 + 1, Len(key))
           i2   == FirstIndex(rest, "_")
       IN  IF i2 = 0 THEN <<a, rest>>
           ELSE <<a, SubSeq(rest, 1, i2 - 1), SubSeq(rest, i2 + 1, Len(rest))>>

\* The characters of the model in code point order (Python compares str by
\* code point).
CodeOrder ==
  <<" ", "#", "-", ".", "/",
    "0", "1", "2", "3", "4", "5", "6", "7", "8", "9",
    "A", "B", "C", "D", "E", "F", "G", "H", "I", "J", "K", "L", "M",
    "N", "O", "P", "Q", "R", "S", "T", "U", "V", "W", "X", "Y", "Z",
    "_",
    "a", "b", "c", "d", "e", "f", "g", "h", "i", "j", "k", "l", "m",
    "n", "o", "p", "q", "r", "s", "t", "u", "v", "w", "x", "y", "z",
    "|">>

CharCode(c) == CHOOSE i \in DOMAIN CodeOrder : CodeOrder[i] = c

\* a < b for Python str.
RECURSIVE LexLess(_, _)
LexLess(a, b) ==
  IF b = <<>> THEN FALSE
  ELSE IF a = <<>> THEN TRUE
  ELSE IF Head(a) = Head(b) THEN LexLess(Tail(a), Tail(b))
  ELSE CharCode(Head(a)) < CharCode(Head(b))

\* SortedKeys with the keys compared as numbers: the shorter text of digits
\* first.
RECURSIVE SortedKeysAsNumbers(_)
SortedKeysAsNumbers(ks) ==
  IF ks = {} THEN <<>>
  ELSE LET m == CHOOSE k \in ks : \A o \in ks \ {k} :
                  Len(k) < Len(o) \/ (Len(k) = Len(o) /\ LexLess(k, o))
       IN  <<m>> \o SortedKeysAsNumbers(ks \ {m})

\* sorted(keys) for distinct str keys.
RECURSIVE SortedKeys(_)
SortedKeys(ks) ==
  IF ks = {} THEN <<>>
  ELSE LET m == CHOOSE k \in ks : \A o \in ks \ {k} : LexLess(k, o)
       IN  <<m>> \o SortedKeys(ks \ {m})

\* ------------------------------------------------------------- the reader
\* csv.DictReader's row for a header and the cells of one line: a missing
\* trailing cell is None (restval); cells beyond the header go, as a list,
\* under the key None (restkey), recorded here as extra.
RECURSIVE ZipRow(_, _, _)
ZipRow(header, cells, i) ==
  IF i = 0 THEN EmptyDict
  ELSE DictSet(ZipRow(header, cells, i - 1), header[i],
               IF i <= Len(cells) THEN cells[i] ELSE None)

DictRow(header, cells) ==
  [dict  |-> ZipRow(header, cells, Len(header)),
   extra |-> Len(cells) > Len(header)]

\* _prepare_payload: None and blank cells dropped, keys and values stripped.
\* The key None of a row with extra cells has no strip(): raises is TRUE
\* where the code raises AttributeError.
RECURSIVE PayloadUpTo(_, _)
PayloadUpTo(d, i) ==
  IF i = 0 THEN EmptyDict
  ELSE LET prev  == PayloadUpTo(d, i - 1)
           key   == d.keys[i]
           value == d.val[key]
       IN  IF value = None \/ strip(value) = <<>> THEN prev
           ELSE DictSet(prev, strip(key), strip(value))

_prepare_payload(row) ==
  [raises  |-> row.extra,
   payload |-> PayloadUpTo(row.dict, Len(row.dict.keys))]

\* AttacksUpTo with a new dict for every cell in place of setdefault: an
\* index keeps the attribute of its last cell only.
RECURSIVE AttacksUpToUnmerged(_, _)
AttacksUpToUnmerged(row, i) ==
  IF i = 0 THEN EmptyDict
  ELSE LET prev  == AttacksUpToUnmerged(row, i - 1)
           key   == row.keys[i]
           value == row.val[key]
           parts == SplitMax2(key)
       IN  IF ~StartsWith(key, AttacksPrefix) THEN prev
           ELSE IF value = None \/ value = <<>> THEN prev
           ELSE IF Len(parts) # 3 THEN prev
           ELSE DictSet(prev, parts[2], DictSet(EmptyDict, parts[3], value))

\* _parse_attacks: the attacks_<index>_<attribute> cells grouped by index.
RECURSIVE AttacksUpTo(_, _)
AttacksUpTo(row, i) ==
  IF i = 0 THEN EmptyDict
  ELSE LET prev  == AttacksUpTo(row, i - 1)
           key   == row.keys[i]
           value == row.val[key]
           parts == SplitMax2(key)
       IN  IF ~StartsWith(key, AttacksPrefix) THEN prev
           ELSE IF value = None \/ value = <<>> THEN prev
           ELSE IF Len(parts) # 3 THEN prev
           ELSE LET index   == parts[2]
                    payload == IF Has(prev, index) THEN prev.val[index] ELSE EmptyDict
                IN  DictSet(prev, index, DictSet(payload, parts[3], value))

\* sorted(attacks.items(), key=lambda item: item[0]): the groups in the
\* order of their index texts, each with its index.
ordered(row) ==
  LET attacks == AttacksUpTo(row, Len(row.keys))
      order   == SortedKeys(Range(attacks.keys))
  IN  [i \in DOMAIN order |-> [index |-> order[i], payload |-> attacks.val[order[i]]]]

_parse_attacks(row) ==
  LET groups == ordered(row)
  IN  IF groups = <<>> THEN None
      ELSE DumpsDicts([i \in DOMAIN groups |-> groups[i].payload])

\* ----------------------------------------------------------------- images
\* The image directory: whether IMAGES_DIR exists, and the files in it, each
\* named by its POSIX path relative to the directory.
RootPath == <<"/", "i", "m", "g">>

Extensions == <<<<".", "p", "n", "g">>, <<".", "j", "p", "g">>, <<".", "j", "p", "e", "g">>, <<".", "w", "e", "b", "p">>>>

\* str.lower() of one upper-case letter.
lowerChar(c) ==
  CASE c = "A" -> "a"
    [] c = "B" -> "b"
    [] c = "C" -> "c"
    [] c = "D" -> "d"
    [] c = "E" -> "e"
    [] c = "F" -> "f"
    [] c = "G" -> "g"
    [] c = "H" -> "h"
    [] c = "I" -> "i"
    [] c = "J" -> "j"
    [] c = "K" -> "k"
    [] c = "L" -> "l"
    [] c = "M" -> "m"
    [] c = "N" -> "n"
    [] c = "O" -> "o"
    [] c = "P" -> "p"
    [] c = "Q" -> "q"
    [] c = "R" -> "r"
    [] c = "S" -> "s"
    [] c = "T" -> "t"
    [] c = "U" -> "u"
    [] c = "V" -> "v"
    [] c = "W" -> "w"
    [] c = "X" -> "x"
    [] c = "Y" -> "y"
    [] c = "Z" -> "z"

lower(s) ==
  [i \in DOMAIN s |->
     IF s[i] \in UpperChars
     THEN lowerChar(s[i])
     ELSE s[i]]

isalnum(c) == c \in DigitChars \cup LowerChars \cup UpperChars

\* str.replace(c, ""): every occurrence of the character removed.
RECURSIVE Remove(_, _)
Remove(s, c) ==
  IF s = <<>> THEN <<>>
  ELSE IF Head(s) = c THEN Remove(Tail(s), c) ELSE <<Head(s)>> \o Remove(Tail(s), c)

\* The characters of s that are in the set cs, in order.
RECURSIVE Keep(_, _)
Keep(s, cs) ==
  IF s = <<>> THEN <<>>
  ELSE IF Head(s) \in cs THEN <<Head(s)>> \o Keep(Tail(s), cs) ELSE Keep(Tail(s), cs)

\* str.strip("_")
RECURSIVE StripUnderscore(_)
StripUnderscore(s) ==
  IF s = <<>> THEN <<>>
  ELSE IF Head(s) = "_" THEN StripUnderscore(Tail(s))
  ELSE IF s[Len(s)] = "_" THEN StripUnderscore(SubSeq(s, 1, Len(s) - 1))
  ELSE s

\* str.zfill(width) of a text of digits.
RECURSIVE zfill(_, _)
zfill(s, width) == IF Len(s) >= width THEN s ELSE zfill(<<"0">> \o s, width)

sanitized_set(set_id) ==
  LET low == lower(set_id)
  IN  StripUnderscore([i \in DOMAIN low |-> IF isalnum(low[i]) THEN low[i] ELSE "_"])

sanitized_number(number) == Remove(Remove(lower(strip(number)), "#"), " ")

\* _candidate_names: the set base_candidates.  Python iterates a set of str
\* in an order that depends on the process's hash seed.
base_candidates(number) ==
  LET sn     == sanitized_number(number)
      digits == Keep(sn, DigitChars)
      alnum  == Keep(sn, DigitChars \cup LowerChars \cup UpperChars)
  IN  {sn}
      \cup (IF digits # <<>> THEN {digits, zfill(digits, 3), zfill(digits, 4)} ELSE {})
      \cup (IF alnum # <<>> THEN {alnum} ELSE {})

\* The three names _candidate_names yields for one base candidate, in order.
_candidate_names(set_id, candidate) ==
  <<sanitized_set(set_id) \o <<"_">> \o candidate,
    sanitized_set(set_id) \o candidate,
    candidate>>

\* The file names tried for one base candidate: each name with each extension.
TriedNames(set_id, candidate) ==
  LET names == _candidate_names(set_id, candidate)
  IN  [k \in 1..(Len(names) * Len(Extensions)) |->
         names[((k - 1) \div Len(Extensions)) + 1] \o
         Extensions[((k - 1) % Len(Extensions)) + 1]]

\* The last text of a sequence that is in a set, None when there is none.
LastIn(names, files) ==
  IF \E k \in DOMAIN names : names[k] \in files
  THEN names[CHOOSE k \in DOMAIN names :
               names[k] \in files /\ \A j \in (k + 1)..Len(names) : names[j] \notin files]
  ELSE None

\* The first text of a sequence that is in a set, None when there is none.
FirstIn(names, files) ==
  IF \E k \in DOMAIN names : names[k] \in files
  THEN names[CHOOSE k \in DOMAIN names :
               names[k] \in files /\ \A j \in 1..(k - 1) : names[j] \notin files]
  ELSE None

\* _guess_local_image: the values a call can return, one for each base
\* candidate the set iteration can reach first among those with a file.
_guess_local_image(root, set_id, number) ==
  IF ~Truthy(set_id) \/ ~Truthy(number) THEN {None}
  ELSE IF ~root.exists THEN {None}
  ELSE LET hits == {FirstIn(TriedNames(set_id, c), root.files) :
                      c \in base_candidates(number)} \ {None}
       IN  IF hits = {} THEN {None} ELSE hits

guess_local_image(root, set_id, number) == _guess_local_image(root, set_id, number)

\* Path.exists() for an absolute or root-relative path of the model: the
\* files of the model are those of the image directory.
PathExists(root, path) ==
  /\ root.exists
  /\ StartsWith(path, RootPath \o <<"/">>)
  /\ SubSeq(path, Len(RootPath) + 2, Len(path)) \in root.files

\* _normalise (inside resolve_image_reference) for a path under the root.
_normalise(root, path) ==
  IF ~PathExists(root, path) THEN None
  ELSE SubSeq(path, Len(RootPath) + 2, Len(path))

\* Path.suffix == "": the last component has no dot after its first character.
NoSuffix(path) ==
  LET comps == split(path, "/")
      last  == comps[Len(comps)]
  IN  \A i \in DOMAIN last : last[i] = "." => (i = 1 \/ i = Len(last))

\* resolve_image_reference
resolve_image_reference(root, reference) ==
  IF ~Truthy(reference) THEN None
  ELSE LET ref == strip(reference) IN
    IF ref = <<>> THEN None
    ELSE IF ~root.exists THEN None
    ELSE IF Head(ref) = "/" THEN _normalise(root, ref)
    ELSE LET direct == _normalise(root, RootPath \o <<"/">> \o ref)
             tried  == [k \in DOMAIN Extensions |-> ref \o Extensions[k]]
         IN  IF Truthy(direct) THEN direct
             ELSE IF NoSuffix(ref) THEN FirstIn(tried, root.files)
             ELSE None

\* ------------------------------------------------------------------ cards
\* The columns of the collector's cards table (models.py), id included; the
\* timestamps are left out.  id is 0 until the INSERT gives the row one.
CardFields ==
  {"id", "name", "hp", "types", "rarity", "set_name", "set_id", "number",
   "artist", "ability_name", "ability_text", "attacks", "weaknesses",
   "resistances", "retreat_cost", "image_path", "image_url"}

\* Card(set_id=..., number=...): every other column None.
NewCard(set_id, number) ==
  [id |-> 0, name |-> None, hp |-> None, types |-> None, rarity |-> None,
   set_name |-> None, set_id |-> set_id, number |-> number, artist |-> None,
   ability_name |-> None, ability_text |-> None, attacks |-> None,
   weaknesses |-> None, resistances |-> None, retreat_cost |-> None,
   image_path |-> None, image_url |-> None]

\* The natural key import_csv reads from a payload.
RowSetId(payload) == Or(Get(payload, H.set_id), Get(payload, H.setId))

RowNumber(payload) == Or(Get(payload, H.number), Get(payload, H.card_number))

\* card.attacks = _parse_attacks(payload): assigned for every row.
AssignAttacks(card, payload) == [card EXCEPT !.attacks = _parse_attacks(payload)]

\* The image import_csv records for a row: the image_path cell as it is,
\* else the resolved Imagem/imagem reference, else the guessed file.
LocalImage(payload, root, guessed) ==
  LET explicit == Get(payload, H.image_path)
      pt_image == Or(Get(payload, H.Imagem), Get(payload, H.imagem))
      resolved == IF Truthy(explicit) THEN explicit
                  ELSE resolve_image_reference(root, pt_image)
  IN  IF Truthy(resolved) THEN resolved ELSE guessed

\* card.<field> = value when the condition holds.
SetIf(card, cond, field, value) == IF cond THEN [card EXCEPT ![field] = value] ELSE card

\* The field assignments of import_csv for one row, in the code's order;
\* guessed is what guess_local_image returns for the row's key.
ApplyRow(card, payload, root, guessed) ==
  LET hp_value       == Or(Get(payload, H.hp), Get(payload, H.hp_str))
      types_source   == Or(Get(payload, H.types), Get(payload, H.type))
      retreat_source == Or(Get(payload, H.retreat_cost), Get(payload, H.retreat))
      local_image    == LocalImage(payload, root, guessed)
      c1  == SetIf(card, Has(payload, H.name) /\ Truthy(Get(payload, H.name)),
                   "name", Get(payload, H.name))
      c2  == SetIf(c1, hp_value # None, "hp", hp_value)
      c3  == SetIf(c2, types_source # None, "types", ListColumn(types_source))
      c4  == SetIf(c3, Has(payload, H.rarity), "rarity", Get(payload, H.rarity))
      c5  == SetIf(c4, Has(payload, H.set_name) \/ Has(payload, H.set),
                   "set_name", Or(Get(payload, H.set_name), Get(payload, H.set)))
      c6  == SetIf(c5, Has(payload, H.artist), "artist", Get(payload, H.artist))
      c7  == SetIf(c6, Has(payload, H.ability_name) \/ Has(payload, H.abilities_0_name),
                   "ability_name",
                   Or(Get(payload, H.ability_name), Get(payload, H.abilities_0_name)))
      c8  == SetIf(c7, Has(payload, H.ability_text) \/ Has(payload, H.abilities_0_text),
                   "ability_text",
                   Or(Get(payload, H.ability_text), Get(payload, H.abilities_0_text)))
      c9  == SetIf(c8, Has(payload, H.weaknesses),
                   "weaknesses", ListColumn(Get(payload, H.weaknesses)))
      c10 == SetIf(c9, Has(payload, H.resistances),
                   "resistances", ListColumn(Get(payload, H.resistances)))
      c11 == SetIf(c10, retreat_source # None, "retreat_cost", ListColumn(retreat_source))
      c12 == AssignAttacks(c11, payload)
      c13 == SetIf(c12, Has(payload, H.image_url) \/ Has(payload, H.images_small),
                   "image_url", Or(Get(payload, H.image_url), Get(payload, H.images_small)))
  IN  SetIf(c13, Truthy(local_image), "image_path", local_image)

\* ----------------------------------------------------------- text values
\* The texts of the seeding script.
T ==
  [base |-> <<"b", "a", "s", "e">>,
   n58 |-> <<"5", "8">>,
   n46 |-> <<"4", "6">>,
   Pikachu |-> <<"P", "i", "k", "a", "c", "h", "u">>,
   Charmander |-> <<"C", "h", "a", "r", "m", "a", "n", "d", "e", "r">>,
   Common |-> <<"C", "o", "m", "m", "o", "n">>,
   n60 |-> <<"6", "0">>,
   n50 |-> <<"5", "0">>,
   BaseSet |-> <<"B", "a", "s", "e", " ", "S", "e", "t">>,
   KenSugimori |-> <<"K", "e", "n", " ", "S", "u", "g", "i", "m", "o", "r", "i">>,
   MitsuhiroArita |-> <<"M", "i", "t", "s", "u", "h", "i", "r", "o", " ", "A", "r", "i", "t", "a">>,
   PikachuAttacks |-> <<"[", "{", "\"", "n", "a", "m", "e", "\"", ":", " ", "\"", "T", "h", "u", "n", "d", "e", "r", " ", "J", "o", "l", "t", "\"", ",", " ", "\"", "c", "o", "s", "t", "\"", ":", " ", "[", "\"", "L", "i", "g", "h", "t", "n", "i", "n", "g", "\"", "]", ",", " ", "\"", "d", "a", "m", "a", "g", "e", "\"", ":", " ", "\"", "3", "0", "\"", ",", " ", "\"", "t", "e", "x", "t", "\"", ":", " ", "\"", "F", "l", "i", "p", " ", "a", " ", "c", "o", "i", "n", ".", " ", "I", "f", " ", "t", "a", "i", "l", "s", ",", " ", "P", "i", "k", "a", "c", "h", "u", " ", "d", "o", "e", "s", " ", "1", "0", " ", "d", "a", "m", "a", "g", "e", " ", "t", "o", " ", "i", "t", "s", "e", "l", "f", ".", "\"", "}", "]">>,
   CharmanderAttacks |-> <<"[", "{", "\"", "n", "a", "m", "e", "\"", ":", " ", "\"", "S", "c", "r", "a", "t", "c", "h", "\"", ",", " ", "\"", "c", "o", "s", "t", "\"", ":", " ", "[", "\"", "C", "o", "l", "o", "r", "l", "e", "s", "s", "\"", "]", ",", " ", "\"", "d", "a", "m", "a", "g", "e", "\"", ":", " ", "\"", "1", "0", "\"", ",", " ", "\"", "t", "e", "x", "t", "\"", ":", " ", "n", "u", "l", "l", "}", ",", " ", "{", "\"", "n", "a", "m", "e", "\"", ":", " ", "\"", "E", "m", "b", "e", "r", "\"", ",", " ", "\"", "c", "o", "s", "t", "\"", ":", " ", "[", "\"", "F", "i", "r", "e", "\"", ",", " ", "\"", "C", "o", "l", "o", "r", "l", "e", "s", "s", "\"", "]", ",", " ", "\"", "d", "a", "m", "a", "g", "e", "\"", ":", " ", "\"", "3", "0", "\"", ",", " ", "\"", "t", "e", "x", "t", "\"", ":", " ", "\"", "D", "i", "s", "c", "a", "r", "d", " ", "1", " ", "F", "i", "r", "e", " ", "E", "n", "e", "r", "g", "y", " ", "c", "a", "r", "d", " ", "a", "t", "t", "a", "c", "h", "e", "d", " ", "t", "o", " ", "C", "h", "a", "r", "m", "a", "n", "d", "e", "r", " ", "i", "n", " ", "o", "r", "d", "e", "r", " ", "t", "o", " ", "u", "s", "e", " ", "t", "h", "i", "s", " ", "a", "t", "t", "a", "c", "k", ".", "\"", "}", "]">>,
   PikachuUrl |-> <<"h", "t", "t", "p", "s", ":", "/", "/", "i", "m", "a", "g", "e", "s", ".", "p", "o", "k", "e", "m", "o", "n", "t", "c", "g", ".", "i", "o", "/", "b", "a", "s", "e", "1", "/", "5", "8", "_", "h", "i", "r", "e", "s", ".", "p", "n", "g">>,
   CharmanderUrl |-> <<"h", "t", "t", "p", "s", ":", "/", "/", "i", "m", "a", "g", "e", "s", ".", "p", "o", "k", "e", "m", "o", "n", "t", "c", "g", ".", "i", "o", "/", "b", "a", "s", "e", "1", "/", "4", "6", "_", "h", "i", "r", "e", "s", ".", "p", "n", "g">>,
   Lightning |-> <<"L", "i", "g", "h", "t", "n", "i", "n", "g">>,
   Fire |-> <<"F", "i", "r", "e">>,
   Fighting |-> <<"F", "i", "g", "h", "t", "i", "n", "g">>,
   Water |-> <<"W", "a", "t", "e", "r">>,
   Colorless |-> <<"C", "o", "l", "o", "r", "l", "e", "s", "s">>]

\* Texts of CSV cells and request bodies.
Cell ==
  [Eevee |-> <<"E", "e", "v", "e", "e">>,
   Raichu |-> <<"R", "a", "i", "c", "h", "u">>,
   RarePadded |-> <<" ", "R", "a", "r", "e", " ">>,
   Jolt |-> <<"J", "o", "l", "t">>,
   Extra |-> <<"x">>,
   Blank |-> <<" ">>,
   Two |-> <<"2">>,
   QuotedFire |-> <<"\"", "F", "i", "r", "e", "\"">>,
   Object |-> <<"{", "}">>,
   PaddedPair |-> <<" ", "F", "i", "r", "e", " ", "|", " ", "|", "W", "a", "t", "e", "r", " ">>,
   base_58_png |-> <<"b", "a", "s", "e", "_", "5", "8", ".", "p", "n", "g">>,
   base_58_jpg |-> <<"b", "a", "s", "e", "_", "5", "8", ".", "j", "p", "g">>,
   base_058_png |-> <<"b", "a", "s", "e", "_", "0", "5", "8", ".", "p", "n", "g">>,
   base_58 |-> <<"b", "a", "s", "e", "_", "5", "8">>,
   missing_png |-> <<"m", "i", "s", "s", "i", "n", "g", ".", "p", "n", "g">>,
   old_png |-> <<"o", "l", "d", ".", "p", "n", "g">>]

\* --------------------------------------------------------- the CSV inputs
\* The header of the files the importer is given here, and the lines they
\* are made of.
FileHeader ==
  <<H.set_id, H.setId, H.number, H.card_number, H.name, H.rarity, H.attacks_0_name>>

\* The lines: a complete row for base/58; base/58 with a padded rarity and
\* nothing else (a partial update); base/46 under the alias headers, with a
\* name; base/46 with a rarity and no name; a blank number; a short line, the cells
\* after the second missing; a line with one cell more than the header has
\* columns.
Rows ==
  [Full58 |-> <<T.base, <<>>, T.n58, <<>>, T.Pikachu, T.Common, Cell.Jolt>>,
   Partial58 |-> <<T.base, <<>>, T.n58, <<>>, Cell.Blank, Cell.RarePadded, <<>>>>,
   Alias46 |-> <<<<>>, T.base, <<>>, T.n46, Cell.Eevee, <<>>, <<>>>>,
   NoName46 |-> <<T.base, <<>>, T.n46, <<>>, <<>>, T.Common, <<>>>>,
   NoNumber |-> <<T.base, <<>>, Cell.Blank, <<>>, T.Pikachu, <<>>, <<>>>>,
   Short |-> <<<<>>, <<>>>>,
   Long |-> <<T.base, <<>>, T.n58, <<>>, T.Pikachu, T.Common, Cell.Jolt, Cell.Extra>>]

RowSet ==
  {Rows.Full58, Rows.Partial58, Rows.Alias46, Rows.NoName46, Rows.NoNumber,
   Rows.Short, Rows.Long}

NoFile == [header |-> <<>>, rows |-> <<>>]

\* The image directories: none, and one that holds base_58.png.
Roots == {[exists |-> FALSE, files |-> {}], [exists |-> TRUE, files |-> {Cell.base_58_png}]}

\* -------------------------------------------------------------- the store
EmptyFn == [x \in {} |-> None]

KeyOf(card) == <<card.set_id, card.number>>

Max(S) == IF S = {} THEN 0 ELSE CHOOSE m \in S : \A o \in S : o <= m

\* The id an INSERT gives a row: one more than every id handed out so far,
\* in the table or in an open transaction.
NextId(rows, pending) == Max({c.id : c \in rows \cup pending}) + 1

\* A committed row as the importer's transaction sees it: its pending UPDATE
\* laid over it.
Overlay(card, upd) ==
  IF card.id \in DOMAIN upd
  THEN [f \in CardFields |-> IF f \in DOMAIN upd[card.id] THEN upd[card.id][f] ELSE card[f]]
  ELSE card

\* The cards table as the importer's session reads it: the committed rows
\* (read committed) with its own pending UPDATEs, and its pending INSERTs.
View(committed, ins, upd) == {Overlay(c, upd) : c \in committed} \cup ins

\* The columns an UPDATE sets: those whose value differs from the loaded one.
Diff(new, old) == [f \in {g \in CardFields : new[g] # old[g]} |-> new[f]]

MergeDiff(old, diff) ==
  [f \in DOMAIN old \cup DOMAIN diff |-> IF f \in DOMAIN diff THEN diff[f] ELSE old[f]]

\* models.py: name, set_id and number are NOT NULL.
NotNullViolation(card) == card.name = None \/ card.set_id = None \/ card.number = None

\* A cards table without the UniqueConstraint.
NoUniqueViolation(rows, card) == FALSE

\* models.py: UniqueConstraint("set_id", "number") against the other rows.
UniqueViolation(rows, card) ==
  \E o \in rows : o.id # card.id /\ KeyOf(o) = KeyOf(card)

\* The INSERT or UPDATE of a card raises IntegrityError.
IntegrityViolation(rows, card) == NotNullViolation(card) \/ UniqueViolation(rows, card)

\* str(exc.orig) of the IntegrityError, in the words of SQLite.
IntegrityMessage(rows, card) ==
  IF UniqueViolation(rows, card)
  THEN "UNIQUE constraint failed: cards.set_id, cards.number"
  ELSE "NOT NULL constraint failed: cards.name"

\* ------------------------------------------------------ the collector API
\* The fields of CardCreatePayload / CardUpdatePayload but possui.
PayloadFields ==
  {"nome", "set_id", "numero", "hp", "tipo", "raridade", "set", "artista",
   "habilidade_nome", "habilidade_desc", "ataques", "fraquezas",
   "resistencias", "recuo", "imagem"}

\* payload.model_dump() of a CardCreatePayload: every field, None by default.
model_dump(fields) ==
  [f \in PayloadFields |-> IF f \in DOMAIN fields THEN fields[f] ELSE None]

_normalize_optional_str(value) ==
  IF value = None THEN None
  ELSE IF strip(value) = <<>> THEN None ELSE strip(value)

\* text.replace(",", "|")
CommaToPipe(s) == [i \in DOMAIN s |-> IF s[i] = "," THEN "|" ELSE s[i]]

\* str(item).strip() for the items whose strip() is not empty.
StrippedNonBlank(ss) ==
  LET kept == NonBlank(ss) IN [i \in DOMAIN kept |-> strip(kept[i])]

\* _normalize_list_payload for a str value.
_normalize_list_payload(value) ==
  IF value = None THEN None
  ELSE LET text == strip(value) IN
    IF text = <<>> THEN None
    ELSE LET loaded == JsonLoads(text)
             pieces == split(CommaToPipe(text), "|")
             items  == IF ~loaded.ok THEN StrippedNonBlank(pieces)
                       ELSE IF loaded.isList THEN StrippedNonBlank(loaded.items)
                       ELSE IF JsonScalar(text).ok THEN StrippedNonBlank(<<JsonScalar(text).str>>)
                       ELSE <<<<"{", "}">>>>
         IN  IF items = <<>> THEN None ELSE DumpsList(items)

\* _normalize_attacks_payload for a str value.
_normalize_attacks_payload(value) == _normalize_optional_str(value)

\* _apply_card_payload: each field of the payload written to its column.
_apply_card_payload(card, payload) ==
  LET Str(field, column) ==
        IF field \in DOMAIN payload THEN _normalize_optional_str(payload[field])
        ELSE card[column]
      Lst(field, column) ==
        IF field \in DOMAIN payload THEN _normalize_list_payload(payload[field])
        ELSE card[column]
      image == IF "imagem" \in DOMAIN payload THEN payload["imagem"] ELSE None
      normalized_image == _normalize_optional_str(image)
      is_url == Truthy(normalized_image) /\ StartsWith(lower(normalized_image), <<"h", "t", "t", "p">>)
  IN  [id           |-> card.id,
       name         |-> Str("nome", "name"),
       hp           |-> Str("hp", "hp"),
       types        |-> Lst("tipo", "types"),
       rarity       |-> Str("raridade", "rarity"),
       set_name     |-> Str("set", "set_name"),
       set_id       |-> Str("set_id", "set_id"),
       number       |-> Str("numero", "number"),
       artist       |-> Str("artista", "artist"),
       ability_name |-> Str("habilidade_nome", "ability_name"),
       ability_text |-> Str("habilidade_desc", "ability_text"),
       attacks      |-> IF "ataques" \in DOMAIN payload
                        THEN _normalize_attacks_payload(payload["ataques"])
                        ELSE card.attacks,
       weaknesses   |-> Lst("fraquezas", "weaknesses"),
       resistances  |-> Lst("resistencias", "resistances"),
       retreat_cost |-> Lst("recuo", "retreat_cost"),
       image_path   |-> IF image = None THEN card.image_path
                        ELSE IF is_url THEN None ELSE normalized_image,
       image_url    |-> IF image = None THEN card.image_url
                        ELSE IF is_url THEN normalized_image ELSE None]

\* CollectionItem(card_id, quantity=1, for_trade=False), with the next id.
NewItem(items, card_id, quantity, for_trade) ==
  [id |-> Max({i.id : i \in items}) + 1, card_id |-> card_id,
   quantity |-> quantity, for_trade |-> for_trade]

\* POST /cards: the response status and the store after the request.
\* pending are the rows an open import transaction has inserted.
\* create_card that writes the payload over the card of the key when there
\* is one, in place of the 409.
create_card_upsert(cards, items, pending, fields, possui) ==
  LET existing == \E c \in cards : c.set_id = fields["set_id"] /\ c.number = fields["numero"]
      old      == CHOOSE c \in cards : c.set_id = fields["set_id"] /\ c.number = fields["numero"]
      fresh    == [NewCard(fields["set_id"], fields["numero"]) EXCEPT !.name = fields["nome"]]
      applied  == _apply_card_payload(fresh, model_dump(fields))
      card     == [applied EXCEPT !.id = NextId(cards, pending)]
  IN  IF existing
      THEN [status |-> 200,
            cards  |-> (cards \ {old}) \cup {[applied EXCEPT !.id = old.id]},
            items  |-> items]
      ELSE [status |-> 201,
            cards  |-> cards \cup {card},
            items  |-> IF possui THEN items \cup {NewItem(items, card.id, 1, FALSE)}
                       ELSE items]

create_card(cards, items, pending, fields, possui) ==
  LET existing == \E c \in cards : c.set_id = fields["set_id"] /\ c.number = fields["numero"]
      fresh    == [NewCard(fields["set_id"], fields["numero"]) EXCEPT !.name = fields["nome"]]
      applied  == _apply_card_payload(fresh, model_dump(fields))
      card     == [applied EXCEPT !.id = NextId(cards, pending)]
  IN  IF existing THEN [status |-> 409, cards |-> cards, items |-> items]
      ELSE IF IntegrityViolation(cards, card)
      THEN [status |-> 409, cards |-> cards, items |-> items]
      ELSE [status |-> 201,
            cards  |-> cards \cup {card},
            items  |-> IF possui THEN items \cup {NewItem(items, card.id, 1, FALSE)}
                       ELSE items]

\* update_card_endpoint that adds an item for possui true whether or not
\* the card has one.
update_card_endpoint_adding(cards, items, card_id, fields, possui) ==
  IF ~\E c \in cards : c.id = card_id
  THEN [status |-> 404, cards |-> cards, items |-> items]
  ELSE LET card    == CHOOSE c \in cards : c.id = card_id
           updated == _apply_card_payload(card, fields)
           owned   == {i \in items : i.card_id = card_id}
           items2  == IF possui = "true"
                      THEN items \cup {NewItem(items, card_id, 1, FALSE)}
                      ELSE IF possui = "false" THEN items \ owned
                      ELSE items
       IN  IF IntegrityViolation(cards, updated)
           THEN [status |-> 409, cards |-> cards, items |-> items]
           ELSE [status |-> 200, cards |-> (cards \ {card}) \cup {updated}, items |-> items2]

\* PATCH /cards/{card_id}: possui is "unset", "true" or "false".
update_card_endpoint(cards, items, card_id, fields, possui) ==
  IF ~\E c \in cards : c.id = card_id
  THEN [status |-> 404, cards |-> cards, items |-> items]
  ELSE LET card    == CHOOSE c \in cards : c.id = card_id
           updated == _apply_card_payload(card, fields)
           owned   == {i \in items : i.card_id = card_id}
           items2  == IF possui = "true"
                      THEN (IF owned = {} THEN items \cup {NewItem(items, card_id, 1, FALSE)}
                            ELSE items)
                      ELSE IF possui = "false" THEN items \ owned
                      ELSE items
       IN  IF IntegrityViolation(cards, updated)
           THEN [status |-> 409, cards |-> cards, items |-> items]
           ELSE [status |-> 200, cards |-> (cards \ {card}) \cup {updated}, items |-> items2]

\* The requests the API is sent; each is served once.
Requests ==
  {[op |-> "create", id |-> 0, possui |-> "true",
    fields |-> [nome |-> Cell.Eevee, set_id |-> T.base, numero |-> T.n46]],
   [op |-> "patch", id |-> 1, possui |-> "unset",
    fields |-> [numero |-> T.n46]]}

\* ------------------------------------------------------- the seeding script
\* _ensure_dummy_data's two cards; the image paths are what
\* guess_local_image returns for them.
SeedPikachu(id, image) ==
  [id |-> id, name |-> T.Pikachu, hp |-> T.n60, types |-> DumpsList(<<T.Lightning>>),
   rarity |-> T.Common, set_name |-> T.BaseSet, set_id |-> T.base, number |-> T.n58,
   artist |-> T.KenSugimori, ability_name |-> None, ability_text |-> None,
   attacks |-> T.PikachuAttacks, weaknesses |-> DumpsList(<<T.Fighting>>),
   resistances |-> DumpsList(<<>>), retreat_cost |-> DumpsList(<<T.Colorless>>),
   image_path |-> image, image_url |-> T.PikachuUrl]

SeedCharmander(id, image) ==
  [id |-> id, name |-> T.Charmander, hp |-> T.n50, types |-> DumpsList(<<T.Fire>>),
   rarity |-> T.Common, set_name |-> T.BaseSet, set_id |-> T.base, number |-> T.n46,
   artist |-> T.MitsuhiroArita, ability_name |-> None, ability_text |-> None,
   attacks |-> T.CharmanderAttacks, weaknesses |-> DumpsList(<<T.Water>>),
   resistances |-> DumpsList(<<>>), retreat_cost |-> DumpsList(<<T.Colorless>>),
   image_path |-> image, image_url |-> T.CharmanderUrl]

\* ------------------------------------------------------ the older backend
\* backend/app/models.py: the columns of its cards table.  It declares no
\* uniqueness on (set_id, numero).
LegacyColumns ==
  {"id", "nome", "hp", "tipo", "raridade", "set", "set_id", "numero", "artista",
   "habilidade_nome", "habilidade_desc", "ataques", "fraquezas", "resistencias",
   "recuo", "imagem"}

\* backend/app/schemas.py: the fields of CardBase, which card.dict() returns.
CardBaseFields ==
  {"nome", "hp", "tipo", "raridade", "set", "set_id", "numero", "artista",
   "habilidade_nome", "habilidade_desc", "ataques", "fraquezas", "resistencias",
   "recuo", "imagem", "possui"}

\* models.Card(**kwargs): the declarative constructor raises TypeError for a
\* keyword that is no attribute of the class.
ConstructorRaises(kwargs) == \E k \in kwargs : k \notin LegacyColumns

\* crud.create_card: the store after the call; raised says the call raised.
crud_create_card(store, fields) ==
  IF ConstructorRaises(CardBaseFields)
  THEN [raised |-> TRUE, store |-> store]
  ELSE [raised |-> FALSE,
        store  |-> store \cup
                   {[c \in LegacyColumns |->
                       IF c = "id" THEN Max({o["id"] : o \in store}) + 1
                       ELSE IF c \in DOMAIN fields THEN fields[c] ELSE None]}]

\* crud.update_card: the fields that were sent are set on the record.
crud_update_card(store, card_id, fields) ==
  IF ~\E o \in store : o["id"] = card_id
  THEN [found |-> FALSE, store |-> store]
  ELSE LET db_card == CHOOSE o \in store : o["id"] = card_id
           changed == [c \in LegacyColumns |->
                         IF c \in DOMAIN fields THEN fields[c] ELSE db_card[c]]
       IN  [found |-> TRUE, store |-> (store \ {db_card}) \cup {changed}]

LegacyPayloads ==
  {[nome |-> T.Pikachu, set_id |-> T.base, numero |-> T.n58],
   [nome |-> Cell.Raichu, set_id |-> T.base, numero |-> T.n58]}

LegacyPatches == {[numero |-> T.n58], [nome |-> Cell.Eevee]}

\* ------------------------------------------------------------------ state
VARIABLES
  db,        \* the committed rows of the collector's cards table
  items,     \* the committed rows of its collection_items table
  legacy,    \* the rows of the older backend's cards table
  root,      \* the image directory
  replies,   \* the API requests served so far, each with its status
  file,      \* the CSV file of the import
  pc,        \* import_csv: "idle", "rows", "flush", "done" or "raised"
  index,     \* rows of the file dealt with so far
  stats,     \* import_csv's stats
  outcomes,  \* the outcome of each row dealt with so far
  sess,      \* the session's identity map: the Card objects it holds
  txIns,     \* rows the session's open transaction has inserted
  txUpd,     \* columns its open transaction has updated, by card id
  cur,       \* the card of the row in progress, between lookup and flush
  runs,      \* imports of the file that returned
  first,     \* the result of the first of them
  log,       \* what the call of import_csv has done to the file and the session
  arg,       \* the input of the function under study
  out        \* what the function made of it

vars ==
  <<db, items, legacy, root, replies, file, pc, index, stats, outcomes,
    sess, txIns, txUpd, cur, runs, first, log, arg, out>>

importVars ==
  <<file, pc, index, stats, outcomes, sess, txIns, txUpd, cur, runs, first, log>>

\* No function is under study.
NoArg == [op |-> "none"]

\* import_csv up to the loop: the path exists, the encoding is detected, the
\* file is opened, the reader is made, the session is made.
BeginLog == <<"exists", "detect_encoding", "open", "sniff", "session">>

\* Raised without the finally clause: the session is left open.
RaisedSessionOpen(l, exception) ==
  l \o <<"rollback", "close_handle", "raise " \o exception>>

\* except Exception: session.rollback(), raise; finally: session.close();
\* the with statement closes the file; the exception leaves import_csv.
Raised(l, exception) ==
  l \o <<"rollback", "close_session", "close_handle", "raise " \o exception>>

\* session.commit(); finally: session.close(); the with statement closes the
\* file; return stats.
Returned(l) == l \o <<"commit", "close_session", "close_handle", "return">>

NoStats == [created |-> 0, updated |-> 0, skipped |-> 0, errors |-> <<>>]

NoCur == [is_new |-> FALSE, card |-> NewCard(None, None), loaded |-> NewCard(None, None)]

Init ==
  /\ db = {}
  /\ items = {}
  /\ legacy = {}
  /\ root \in Roots
  /\ replies = EmptyFn
  /\ file = NoFile
  /\ pc = "idle"
  /\ index = 0
  /\ stats = NoStats
  /\ outcomes = <<>>
  /\ sess = {}
  /\ txIns = {}
  /\ txUpd = EmptyFn
  /\ cur = NoCur
  /\ runs = 0
  /\ first = NoStats
  /\ log = <<>>
  /\ arg = NoArg
  /\ out = NoArg

\* --------------------------------------------------------------- importer
\* The file is read lazily: a first import of a file meets its lines one by
\* one (file.rows are those read so far, at most MaxRows of them), a repeated
\* import reads the same lines again.
NextRows ==
  IF index < Len(file.rows) THEN {file.rows[index + 1]}
  ELSE IF runs = 0 /\ Len(file.rows) < MaxRows THEN RowSet
  ELSE {}

\* The file once the line has been read.
Read(row) ==
  IF index < Len(file.rows) THEN file ELSE [file EXCEPT !.rows = Append(@, row)]

\* What _prepare_payload makes of a line.
Prepared(row) == _prepare_payload(DictRow(file.header, row))

\* Skipped with rows numbered from 0 (enumerate without start=1).
SkippedFromZero(st, row, message) ==
  [st EXCEPT !.skipped = @ + 1,
             !.errors = Append(@, [row |-> row - 1, error |-> message])]

\* stats after a row is skipped with an error.
Skipped(st, row, message) ==
  [st EXCEPT !.skipped = @ + 1,
             !.errors = Append(@, [row |-> row, error |-> message])]

\* stats after a row is persisted.
Counted(st, is_new) ==
  IF is_new THEN [st EXCEPT !.created = @ + 1] ELSE [st EXCEPT !.updated = @ + 1]

\* session.query(Card).filter(set_id, number): the rows of the key.
Matches(set_id, number) ==
  {c \in View(db, txIns, txUpd) : c.set_id = set_id /\ c.number = number}

\* The object the query returns for a row: the one the identity map already
\* holds for that id, else the row as loaded.
Loaded(row) == IF \E o \in sess : o.id = row.id THEN CHOOSE o \in sess : o.id = row.id ELSE row

\* session.rollback() and session.close(): the transaction and the
\* session's objects are gone.
SessionCleared ==
  /\ txIns' = {}
  /\ txUpd' = EmptyFn
  /\ sess' = {}
  /\ cur' = NoCur

\* _open_csv: the encoding of the handle it returns, "detected" for the one
\* detect_encoding answered and "latin1" for Latin-1, in which every byte is
\* a character.  open() decodes nothing
\* (the text layer decodes when it is read), so it raises no
\* UnicodeDecodeError and the except clause with the Latin-1 handle is never
\* entered.
_open_csv(encoding) == encoding

\* Reading text through a handle raises UnicodeDecodeError: the bytes read
\* are not valid in the handle's encoding.
DecodeFails(encoding, valid) == encoding # "latin1" /\ ~valid

\* ImportMissingFile without the exists() test: detect_encoding is entered
\* and its open raises.
ImportMissingFileUntested ==
  /\ pc = "idle"
  /\ pc' = "raised"
  /\ log' = <<"detect_encoding", "raise FileNotFoundError">>
  /\ UNCHANGED <<db, items, legacy, root, replies, file, index, stats, outcomes,
                 sess, txIns, txUpd, cur, runs, first, arg, out>>

\* import_csv for a path that does not exist.
ImportMissingFile ==
  /\ pc = "idle"
  /\ pc' = "raised"
  /\ log' = <<"raise FileNotFoundError">>
  /\ UNCHANGED <<db, items, legacy, root, replies, file, index, stats, outcomes,
                 sess, txIns, txUpd, cur, runs, first, arg, out>>

\* import_csv for a file whose first bytes are not valid in the detected
\* encoding: handle.read(2048) in _prepare_reader raises, inside the with
\* statement and before the session is made.
SniffDecodeError ==
  /\ pc = "idle"
  /\ \E valid \in BOOLEAN : DecodeFails(_open_csv("detected"), valid)
  /\ pc' = "raised"
  /\ log' = <<"exists", "detect_encoding", "open", "sniff", "close_handle",
              "raise UnicodeDecodeError">>
  /\ UNCHANGED <<db, items, legacy, root, replies, file, index, stats, outcomes,
                 sess, txIns, txUpd, cur, runs, first, arg, out>>

\* SessionLocal() raises: it is called inside the with statement and
\* outside the try.
SessionError ==
  /\ pc = "idle"
  /\ pc' = "raised"
  /\ log' = <<"exists", "detect_encoding", "open", "sniff", "close_handle",
              "raise Exception">>
  /\ UNCHANGED <<db, items, legacy, root, replies, file, index, stats, outcomes,
                 sess, txIns, txUpd, cur, runs, first, arg, out>>

\* The reader meets, after the sample, a line whose bytes are not valid in
\* the detected encoding: the iteration raises UnicodeDecodeError inside
\* the try.
RowDecodeError ==
  /\ pc = "rows"
  /\ runs = 0
  /\ index = Len(file.rows)
  /\ Len(file.rows) < MaxRows
  /\ \E valid \in BOOLEAN : DecodeFails(_open_csv("detected"), valid)
  /\ pc' = "raised"
  /\ log' = Raised(log, "UnicodeDecodeError")
  /\ SessionCleared
  /\ UNCHANGED <<db, items, legacy, root, replies, file, index, stats, outcomes,
                 runs, first, arg, out>>

\* import_csv up to the loop: the file exists, is opened, a session is made.
ImportBegin ==
  /\ pc = "idle"
  /\ file' = [header |-> FileHeader, rows |-> <<>>]
  /\ pc' = "rows"
  /\ index' = 0
  /\ stats' = NoStats
  /\ outcomes' = <<>>
  /\ log' = BeginLog
  /\ UNCHANGED <<db, items, legacy, root, replies, sess, txIns, txUpd, cur, runs, first, arg, out>>

\* RowRaise with an except branch that commits what the earlier rows wrote
\* before it re-raises.
RowRaiseCommits ==
  /\ pc = "rows"
  /\ \E row \in NextRows :
       /\ Prepared(row).raises
       /\ file' = Read(row)
  /\ pc' = "raised"
  /\ db' = View(db, txIns, txUpd)
  /\ SessionCleared
  /\ log' = Raised(log, "AttributeError")
  /\ UNCHANGED <<items, legacy, root, replies, index, stats, outcomes, runs, first, arg, out>>

\* A row for which _prepare_payload raises: except Exception rolls back and
\* re-raises, finally closes the session.
RowRaise ==
  /\ pc = "rows"
  /\ \E row \in NextRows :
       /\ Prepared(row).raises
       /\ file' = Read(row)
  /\ pc' = "raised"
  /\ SessionCleared
  /\ log' = Raised(log, "AttributeError")
  /\ UNCHANGED <<db, items, legacy, root, replies, index, stats, outcomes, runs, first, arg, out>>

\* RowSkipKey without the errors entry.
RowSkipKeyUnreported ==
  /\ pc = "rows"
  /\ \E row \in NextRows :
       /\ ~Prepared(row).raises
       /\ \/ ~Truthy(RowSetId(Prepared(row).payload))
          \/ ~Truthy(RowNumber(Prepared(row).payload))
       /\ file' = Read(row)
  /\ stats' = [stats EXCEPT !.skipped = @ + 1]
  /\ outcomes' = Append(outcomes, "skipped")
  /\ index' = index + 1
  /\ UNCHANGED <<db, items, legacy, root, replies, pc, sess, txIns, txUpd, cur, runs, first, log, arg, out>>

\* A row without set_id or number.
RowSkipKey ==
  /\ pc = "rows"
  /\ \E row \in NextRows :
       /\ ~Prepared(row).raises
       /\ \/ ~Truthy(RowSetId(Prepared(row).payload))
          \/ ~Truthy(RowNumber(Prepared(row).payload))
       /\ file' = Read(row)
  /\ stats' = Skipped(stats, index + 1, "Missing set_id or number")
  /\ outcomes' = Append(outcomes, "skipped")
  /\ index' = index + 1
  /\ UNCHANGED <<db, items, legacy, root, replies, pc, sess, txIns, txUpd, cur, runs, first, log, arg, out>>

\* RowSkipName with session.add(card) ahead of the name check: the card
\* without a name stays in the session.
RowSkipNameAfterAdd ==
  /\ pc = "rows"
  /\ \E row \in NextRows :
       LET payload == Prepared(row).payload
           set_id  == RowSetId(payload)
           number  == RowNumber(payload)
       IN  /\ ~Prepared(row).raises
           /\ Truthy(set_id) /\ Truthy(number)
           /\ Matches(set_id, number) = {}
           /\ ~Truthy(Get(payload, H.name))
           /\ sess' = sess \cup {NewCard(set_id, number)}
           /\ file' = Read(row)
  /\ stats' = Skipped(stats, index + 1, "Missing name")
  /\ outcomes' = Append(outcomes, "skipped")
  /\ index' = index + 1
  /\ UNCHANGED <<db, items, legacy, root, replies, pc, txIns, txUpd, cur, runs, first, log, arg, out>>

\* A row whose key is not in the store and that has no name.
RowSkipName ==
  /\ pc = "rows"
  /\ \E row \in NextRows :
       LET payload == Prepared(row).payload
           set_id  == RowSetId(payload)
           number  == RowNumber(payload)
       IN  /\ ~Prepared(row).raises
           /\ Truthy(set_id) /\ Truthy(number)
           /\ Matches(set_id, number) = {}
           /\ ~Truthy(Get(payload, H.name))
           /\ file' = Read(row)
  /\ stats' = Skipped(stats, index + 1, "Missing name")
  /\ outcomes' = Append(outcomes, "skipped")
  /\ index' = index + 1
  /\ UNCHANGED <<db, items, legacy, root, replies, pc, sess, txIns, txUpd, cur, runs, first, log, arg, out>>

\* A row that is applied: the card is looked up or made, and the row's
\* fields are assigned to it.
RowApply ==
  /\ pc = "rows"
  /\ \E row \in NextRows :
       LET payload == Prepared(row).payload
           set_id  == RowSetId(payload)
           number  == RowNumber(payload)
           found   == Matches(set_id, number)
           is_new  == found = {}
           card    == IF is_new THEN NewCard(set_id, number)
                      ELSE Loaded(CHOOSE c \in found : TRUE)
       IN  /\ ~Prepared(row).raises
           /\ Truthy(set_id) /\ Truthy(number)
           /\ ~(is_new /\ ~Truthy(Get(payload, H.name)))
           /\ \E guessed \in guess_local_image(root, set_id, number) :
                cur' = [is_new |-> is_new,
                        card   |-> ApplyRow(card, payload, root, guessed),
                        loaded |-> card]
           /\ sess' = IF is_new THEN sess ELSE sess \cup {card}
           /\ file' = Read(row)
  /\ pc' = "flush"
  /\ UNCHANGED <<db, items, legacy, root, replies, index, stats, outcomes, txIns, txUpd, runs, first, log, arg, out>>

\* The row the flush writes: the new card with its id (INSERT), or the row
\* of the card's id with the changed columns set (UPDATE).
FlushRow ==
  IF cur.is_new THEN [cur.card EXCEPT !.id = NextId(db, txIns)]
  ELSE MergeDiff(CHOOSE c \in View(db, txIns, txUpd) : c.id = cur.card.id,
                 Diff(cur.card, cur.loaded))

\* FlushIntegrityError without the continue: the row is counted as well.
FlushIntegrityErrorCounted ==
  /\ pc = "flush"
  /\ IntegrityViolation(View(db, txIns, txUpd), FlushRow)
  /\ stats' = Counted(Skipped(stats, index + 1,
                              IntegrityMessage(View(db, txIns, txUpd), FlushRow)),
                      cur.is_new)
  /\ outcomes' = Append(outcomes, "skipped")
  /\ index' = index + 1
  /\ pc' = "rows"
  /\ SessionCleared
  /\ UNCHANGED <<db, items, legacy, root, replies, file, runs, first, log, arg, out>>

\* session.flush() raises IntegrityError: the session is rolled back, the
\* row is skipped with the error.
FlushIntegrityError ==
  /\ pc = "flush"
  /\ IntegrityViolation(View(db, txIns, txUpd), FlushRow)
  /\ stats' = Skipped(stats, index + 1, IntegrityMessage(View(db, txIns, txUpd), FlushRow))
  /\ outcomes' = Append(outcomes, "skipped")
  /\ index' = index + 1
  /\ pc' = "rows"
  /\ SessionCleared
  /\ UNCHANGED <<db, items, legacy, root, replies, file, runs, first, log, arg, out>>

\* FlushOk with a session.commit() after the flush: each row is committed
\* as it is counted.
FlushOkCommits ==
  /\ pc = "flush"
  /\ ~IntegrityViolation(View(db, txIns, txUpd), FlushRow)
  /\ LET row  == FlushRow
         diff == Diff(cur.card, cur.loaded)
         old  == IF row.id \in DOMAIN txUpd THEN txUpd[row.id] ELSE EmptyFn
         ins  == IF cur.is_new THEN txIns \cup {row} ELSE txIns
         upd  == IF cur.is_new \/ DOMAIN diff = {} THEN txUpd
                 ELSE [i \in DOMAIN txUpd \cup {row.id} |->
                         IF i = row.id THEN MergeDiff(old, diff) ELSE txUpd[i]]
     IN  /\ db' = View(db, ins, upd)
         /\ txIns' = {}
         /\ txUpd' = EmptyFn
         /\ sess' = {o \in sess : o.id # row.id} \cup {IF cur.is_new THEN row ELSE cur.card}
  /\ stats' = Counted(stats, cur.is_new)
  /\ outcomes' = Append(outcomes, IF cur.is_new THEN "created" ELSE "updated")
  /\ index' = index + 1
  /\ pc' = "rows"
  /\ cur' = NoCur
  /\ UNCHANGED <<items, legacy, root, replies, file, runs, first, log, arg, out>>

\* session.add(card); session.flush(): the INSERT or UPDATE joins the open
\* transaction, the row is counted.
FlushOk ==
  /\ pc = "flush"
  /\ ~IntegrityViolation(View(db, txIns, txUpd), FlushRow)
  /\ LET row  == FlushRow
         diff == Diff(cur.card, cur.loaded)
         old  == IF row.id \in DOMAIN txUpd THEN txUpd[row.id] ELSE EmptyFn
     IN  /\ txIns' = IF cur.is_new THEN txIns \cup {row}
                     ELSE IF \E c \in txIns : c.id = row.id
                     THEN {c \in txIns : c.id # row.id} \cup {row}
                     ELSE txIns
         /\ txUpd' = IF cur.is_new \/ (\E c \in txIns : c.id = row.id) \/ DOMAIN diff = {}
                     THEN txUpd
                     ELSE [i \in DOMAIN txUpd \cup {row.id} |->
                             IF i = row.id THEN MergeDiff(old, diff) ELSE txUpd[i]]
         /\ sess' = {o \in sess : o.id # row.id} \cup {IF cur.is_new THEN row ELSE cur.card}
  /\ stats' = Counted(stats, cur.is_new)
  /\ outcomes' = Append(outcomes, IF cur.is_new THEN "created" ELSE "updated")
  /\ index' = index + 1
  /\ pc' = "rows"
  /\ cur' = NoCur
  /\ UNCHANGED <<db, items, legacy, root, replies, file, runs, first, log, arg, out>>

\* ImportCommit without the commit: the session is closed and stats
\* returned, the transaction is dropped.
ImportCloseUncommitted ==
  /\ pc = "rows"
  /\ index = Len(file.rows)
  /\ pc' = "done"
  /\ runs' = runs + 1
  /\ first' = IF runs = 0 THEN stats ELSE first
  /\ SessionCleared
  /\ log' = Returned(log)
  /\ UNCHANGED <<db, items, legacy, root, replies, file, index, stats, outcomes, arg, out>>

\* After the last row: session.commit(), session.close(), return stats.
ImportCommit ==
  /\ pc = "rows"
  /\ index = Len(file.rows)
  /\ db' = View(db, txIns, txUpd)
  /\ pc' = "done"
  /\ runs' = runs + 1
  /\ first' = IF runs = 0 THEN stats ELSE first
  /\ SessionCleared
  /\ log' = Returned(log)
  /\ UNCHANGED <<items, legacy, root, replies, file, index, stats, outcomes, arg, out>>

\* -------------------------------------------------------------- API steps
\* db.py takes the database from DB_URL; the store is modelled as a server
\* database under read committed.  A write waits for the open import
\* transaction where it would touch a row that transaction has written: a
\* key it has inserted, a row it has updated.
PendingKeys == {KeyOf(c) : c \in txIns}

WaitsForImport(r) ==
  IF r.op = "create" THEN <<r.fields["set_id"], r.fields["numero"]>> \in PendingKeys
  ELSE \/ r.id \in DOMAIN txUpd
       \/ \E c \in db : /\ c.id = r.id
                        /\ KeyOf(_apply_card_payload(c, r.fields)) \in PendingKeys

Replied(r, status) ==
  [x \in DOMAIN replies \cup {r} |-> IF x = r THEN status ELSE replies[x]]

\* POST /cards
CreateCard ==
  \E r \in Requests \ DOMAIN replies :
    /\ r.op = "create"
    /\ ~WaitsForImport(r)
    /\ LET res == create_card(db, items, txIns, r.fields, r.possui = "true")
       IN  /\ db' = res.cards
           /\ items' = res.items
           /\ replies' = Replied(r, res.status)
    /\ UNCHANGED <<legacy, root, importVars, arg, out>>

\* PATCH /cards/{card_id}
UpdateCard ==
  \E r \in Requests \ DOMAIN replies :
    /\ r.op = "patch"
    /\ ~WaitsForImport(r)
    /\ LET res == update_card_endpoint(db, items, r.id, r.fields, r.possui)
       IN  /\ db' = res.cards
           /\ items' = res.items
           /\ replies' = Replied(r, res.status)
    /\ UNCHANGED <<legacy, root, importVars, arg, out>>

\* seed.py without a CSV file: _ensure_dummy_data, which does nothing when
\* the table has a row.
Seed ==
  /\ db = {}
  /\ PendingKeys \cap {<<T.base, T.n58>>, <<T.base, T.n46>>} = {}
  /\ \E image58 \in guess_local_image(root, T.base, T.n58),
        image46 \in guess_local_image(root, T.base, T.n46) :
       LET pikachu    == SeedPikachu(NextId(db, txIns), image58)
           charmander == SeedCharmander(NextId(db, txIns) + 1, image46)
       IN  /\ db' = {pikachu, charmander}
           /\ items' = items \cup {NewItem(items, pikachu.id, 1, TRUE)}
  /\ UNCHANGED <<legacy, root, replies, importVars, arg, out>>

\* The older backend's POST /cards.  The backend has its own store and shares
\* nothing with the collector, so its requests are taken while no import runs.
LegacyCreate ==
  /\ pc = "idle"
  /\ Cardinality(legacy) < MaxLegacyCards
  /\ \E fields \in LegacyPayloads : legacy' = crud_create_card(legacy, fields).store
  /\ UNCHANGED <<db, items, root, replies, importVars, arg, out>>

\* The older backend's PATCH /cards/{card_id}.
LegacyUpdate ==
  /\ pc = "idle"
  /\ \E card_id \in 1..MaxLegacyCards, fields \in LegacyPatches :
       legacy' = crud_update_card(legacy, card_id, fields).store
  /\ UNCHANGED <<db, items, root, replies, importVars, arg, out>>

\* ---------------------------------------------------------- specifications
Import ==
  \/ ImportMissingFile
  \/ SniffDecodeError
  \/ SessionError
  \/ ImportBegin
  \/ RowDecodeError
  \/ RowRaise
  \/ RowSkipKey
  \/ RowSkipName
  \/ RowApply
  \/ FlushIntegrityError
  \/ FlushOk
  \/ ImportCommit

Next ==
  \/ Import
  \/ CreateCard
  \/ UpdateCard
  \/ Seed
  \/ LegacyCreate
  \/ LegacyUpdate

Spec == Init /\ [][Next]_vars

\* import_csv called again with the same path, the file unchanged.
ImportAgain ==
  /\ pc = "done"
  /\ runs = 1
  /\ pc' = "rows"
  /\ index' = 0
  /\ stats' = NoStats
  /\ outcomes' = <<>>
  /\ log' = BeginLog
  /\ UNCHANGED <<db, items, legacy, root, replies, file, sess, txIns, txUpd, cur, runs, first, arg, out>>

\* The same file imported twice in succession with no other writer: the
\* store is seeded or not before the first import, and nothing but the two
\* imports writes to it afterwards.
NextTwice ==
  \/ pc = "idle" /\ Seed
  \/ ImportBegin
  \/ RowRaise
  \/ RowSkipKey
  \/ RowSkipName
  \/ RowApply
  \/ FlushOk
  \/ ImportCommit
  \/ ImportAgain

SpecTwice == Init /\ [][NextTwice]_vars

\* ------------------------------------------------- the cells of one row
\* The importer's treatment of one row's cells, applied to inputs drawn from
\* bounded sets: arg is the input, out what the importer makes of it.

\* Every variable but arg and root as it is before anything has run.
Untouched ==
  /\ db = {}
  /\ items = {}
  /\ legacy = {}
  /\ replies = EmptyFn
  /\ file = NoFile
  /\ pc = "idle"
  /\ index = 0
  /\ stats = NoStats
  /\ outcomes = <<>>
  /\ sess = {}
  /\ txIns = {}
  /\ txUpd = EmptyFn
  /\ cur = NoCur
  /\ runs = 0
  /\ first = NoStats
  /\ log = <<>>
  /\ out = NoArg

\* "|".join(tokens)
RECURSIVE PipeCell(_)
PipeCell(tokens) ==
  IF Len(tokens) = 1 THEN tokens[1]
  ELSE tokens[1] \o <<"|">> \o PipeCell(Tail(tokens))

\* The inputs for the list-like columns (each read from the header of its
\* name): lists of tokens, the tokens being two energy types and a number
\* (a retreat cost); and cells that are no array literal: a token, padded
\* tokens with an empty one between them, a number, a quoted string, an
\* object.
ListArgs ==
  LET fields == {"types", "weaknesses", "resistances", "retreat_cost"}
      tokens == {T.Fire, T.Water, Cell.Two}
      lists  == UNION {[1..n -> tokens] : n \in 1..MaxTokens}
      cells  == {T.Fire, Cell.PaddedPair, Cell.Two, Cell.QuotedFire, Cell.Object}
  IN  {[op |-> "tokens", field |-> f, tokens |-> ts] : f \in fields, ts \in lists}
      \cup {[op |-> "cell", field |-> f, cell |-> c] : f \in fields, c \in cells}

\* What import_csv stores in a list-like column of a new card for a row
\* that has the cell under the column's header.
StoredList(field, cell) ==
  ApplyRow(NewCard(None, None),
           _prepare_payload(DictRow(<<H[field]>>, <<cell>>)).payload,
           root, None)[field]

\* One list of tokens given as a pipe cell and as an array literal (the
\* literal as json.dumps writes it).
StoreTokens ==
  /\ arg.op = "tokens"
  /\ out = NoArg
  /\ out' = [op |-> "tokens",
             pipe |-> StoredList(arg.field, PipeCell(arg.tokens)),
             json |-> StoredList(arg.field, DumpsList(arg.tokens))]
  /\ UNCHANGED <<db, items, legacy, root, replies, importVars, arg>>

\* One cell of a list-like column.
StoreCell ==
  /\ arg.op = "cell"
  /\ out = NoArg
  /\ out' = [op |-> "cell", stored |-> StoredList(arg.field, arg.cell)]
  /\ UNCHANGED <<db, items, legacy, root, replies, importVars, arg>>

\* The inputs for the attack columns: rows of at most MaxAttackColumns
\* columns attacks_<index>_<attribute>, no column twice, each with a cell
\* that holds a text or is blank.
AttackArgs ==
  LET indices    == {<<"0">>, <<"2">>, <<"1", "0">>}
      attributes == {H.name, <<"d", "a", "m", "a", "g", "e">>}
      cells      == {Cell.Jolt, Cell.Raichu, Cell.Blank}
      columns    == [index : indices, attribute : attributes, cell : cells]
      rows       == UNION {[1..n -> columns] : n \in 0..MaxAttackColumns}
  IN  {[op |-> "attacks", cols |-> r] :
         r \in {x \in rows : \A i, j \in DOMAIN x :
                   i # j => <<x[i].index, x[i].attribute>> # <<x[j].index, x[j].attribute>>}}

\* The attacks import_csv stores for a new card from a row of attack
\* columns, and the groups _parse_attacks made of them.
ParseAttacks ==
  /\ arg.op = "attacks"
  /\ out = NoArg
  /\ LET header  == [k \in DOMAIN arg.cols |->
                       AttacksPrefix \o arg.cols[k].index \o <<"_">> \o arg.cols[k].attribute]
         cells   == [k \in DOMAIN arg.cols |-> arg.cols[k].cell]
         payload == _prepare_payload(DictRow(header, cells)).payload
     IN  out' = [op |-> "attacks",
                 stored |-> AssignAttacks(NewCard(None, None), payload).attacks,
                 groups |-> ordered(payload)]
  /\ UNCHANGED <<db, items, legacy, root, replies, importVars, arg>>

\* The body of import_csv's loop for one row, the flush left aside: the
\* row's outcome and the card it leaves in the session, for the cards of
\* the store and the image guess_local_image answers.
RowResult(cards, payload, guessed) ==
  LET set_id == RowSetId(payload)
      number == RowNumber(payload)
      found  == {c \in cards : c.set_id = set_id /\ c.number = number}
      is_new == found = {}
      card   == IF is_new THEN NewCard(set_id, number) ELSE CHOOSE c \in found : TRUE
  IN  IF ~Truthy(set_id) \/ ~Truthy(number)
      THEN [outcome |-> "skipped", card |-> None]
      ELSE IF is_new /\ ~Truthy(Get(payload, H.name))
      THEN [outcome |-> "skipped", card |-> None]
      ELSE [outcome |-> IF is_new THEN "created" ELSE "updated",
            card    |-> ApplyRow(card, payload, root, guessed)]

\* The inputs for the header names: a pair of names the input interface
\* gives for one field, the cell under it, and whether the store holds the
\* card base/46 already.
AliasArgs ==
  LET pairs == {<<H.name, H.nome>>, <<H.set_id, H.setId>>, <<H.number, H.card_number>>,
                <<H.types, H.type>>, <<H.set_name, H.set>>,
                <<H.ability_name, H.abilities_0_name>>,
                <<H.ability_text, H.abilities_0_text>>,
                <<H.retreat_cost, H.retreat>>, <<H.image_url, H.images_small>>}
      cells == {T.base, T.n46, Cell.PaddedPair}
  IN  {[op |-> "alias", pair |-> p, cell |-> c, existing |-> e] :
         p \in pairs, c \in cells, e \in BOOLEAN}

\* One row of base/46 named Eevee with the cell under the first name of
\* the pair, and the same row with the cell under the second name; the
\* stored card base/46, where there is one, has the image old.png.
ImportAliasRow ==
  /\ arg.op \in {"alias", "image"}
  /\ out = NoArg
  /\ LET base    == <<[h |-> H.set_id, c |-> T.base], [h |-> H.number, c |-> T.n46],
                      [h |-> H.name, c |-> Cell.Eevee]>>
         others  == SelectSeq(base, LAMBDA x : x.h # arg.pair[1])
         Row(h)  == LET cols == Append(others, [h |-> h, c |-> arg.cell])
                    IN  DictRow([k \in DOMAIN cols |-> cols[k].h],
                                [k \in DOMAIN cols |-> cols[k].c])
         cards   == IF arg.existing
                    THEN {[NewCard(T.base, T.n46) EXCEPT !.id = 1, !.name = Cell.Raichu,
                                                         !.image_path = Cell.old_png]}
                    ELSE {}
     IN  \E guessed \in guess_local_image(root, T.base, T.n46) :
           out' = [op |-> arg.op,
                   primary |-> RowResult(cards, _prepare_payload(Row(arg.pair[1])).payload, guessed),
                   alias   |-> RowResult(cards, _prepare_payload(Row(arg.pair[2])).payload, guessed)]
  /\ UNCHANGED <<db, items, legacy, root, replies, importVars, arg>>

\* The inputs for the images: an image directory (absent, or holding some
\* of three files that base/58 can be guessed as) with a key to guess the
\* image of, a reference to resolve, or a pair of the header names of an
\* image reference, the cell under it, and whether the store holds the card
\* base/46 already.
ImageArgs ==
  LET roots == {[exists |-> FALSE, files |-> {}]} \cup
               {[exists |-> TRUE, files |-> fs] :
                  fs \in SUBSET {Cell.base_58_png, Cell.base_58_jpg, Cell.base_058_png}}
      refs  == {Cell.base_58_png, Cell.base_58, Cell.missing_png}
  IN  {[op |-> "guess", root |-> r, set_id |-> T.base, number |-> n] :
         r \in roots, n \in {T.n58, Cell.Blank}}
      \cup {[op |-> "resolve", root |-> r, reference |-> ref] :
               r \in roots, ref \in refs \cup {None, Cell.Blank}}
      \cup {[op |-> "image", root |-> r, pair |-> p, cell |-> ref, existing |-> e] :
               r \in roots, p \in {<<H.image_path, H.Imagem>>, <<H.image_path, H.imagem>>},
               ref \in refs \cup {Cell.Blank}, e \in BOOLEAN}

\* guess_local_image for a key: one of the values the call can return.
GuessImage ==
  /\ arg.op = "guess"
  /\ out = NoArg
  /\ \E result \in guess_local_image(root, arg.set_id, arg.number) :
       out' = [op |-> "guess", result |-> result]
  /\ UNCHANGED <<db, items, legacy, root, replies, importVars, arg>>

\* resolve_image_reference for a reference.
ResolveReference ==
  /\ arg.op = "resolve"
  /\ out = NoArg
  /\ out' = [op |-> "resolve", result |-> resolve_image_reference(root, arg.reference)]
  /\ UNCHANGED <<db, items, legacy, root, replies, importVars, arg>>

\* _save_uploaded_file: mkstemp creates the temporary file, then the upload
\* is read and written to it; raised tells whether the read or the write
\* failed, in which case no path is returned.
_save_uploaded_file(fault) ==
  [created |-> TRUE, raised |-> fault \in {"read", "write"}]

\* POST /import/csv: the response status, whether import_csv was called,
\* and whether the temporary file exists when the request is over.
import_csv_endpoint(csv_file, csv_path, fault) ==
  IF ~csv_file /\ ~csv_path
  THEN [status |-> 400, imported |-> FALSE, tmp_exists |-> FALSE]
  ELSE IF csv_file
  THEN LET saved    == _save_uploaded_file(fault)
           tmp_path == IF saved.raised THEN None ELSE RootPath
           unlinked == tmp_path # None /\ saved.created
       IN  [status     |-> IF saved.raised \/ fault = "import" THEN 500 ELSE 200,
            imported   |-> ~saved.raised,
            tmp_exists |-> saved.created /\ ~unlinked]
  ELSE [status     |-> IF fault = "import" THEN 500 ELSE 200,
        imported   |-> TRUE,
        tmp_exists |-> FALSE]

\* The inputs for the upload: whether the request carries a file, whether
\* it carries a path, and what fails while it is served.
UploadArgs ==
  {[op |-> "upload", csv_file |-> f, csv_path |-> p, fault |-> x] :
     f \in BOOLEAN, p \in BOOLEAN, x \in {"none", "read", "write", "import"}}

PostImportCsv ==
  /\ arg.op = "upload"
  /\ out = NoArg
  /\ out' = [op |-> "upload",
             response |-> import_csv_endpoint(arg.csv_file, arg.csv_path, arg.fault)]
  /\ UNCHANGED <<db, items, legacy, root, replies, importVars, arg>>

InitCells ==
  /\ Untouched
  /\ arg \in ListArgs \cup AttackArgs \cup AliasArgs \cup ImageArgs \cup UploadArgs
  /\ root \in IF arg.op \in {"guess", "resolve", "image"} THEN {arg.root} ELSE Roots

NextCells ==
  \/ StoreTokens
  \/ StoreCell
  \/ ParseAttacks
  \/ ImportAliasRow
  \/ GuessImage
  \/ ResolveReference
  \/ PostImportCsv

SpecCells == InitCells /\ [][NextCells]_vars

\* ------------------------------------------------------------------ claims
\* C1: a row that updates an existing card and has cells for only some of
\* the fields leaves every other stored field as it was: after the row's
\* assignments each field for which the row has no non-blank cell (the
\* attacks among them) has the value the card was loaded with, and
\* image_path has it when the row names no image and no image file is
\* found for the key.
C1_PartialUpdateKeepsFields ==
  [][(pc = "rows" /\ pc' = "flush" /\ ~cur'.is_new) =>
       LET cells == DictRow(file'.header, file'.rows[index + 1]).dict
           filled(h) == Has(cells, h) /\ cells.val[h] # None /\ strip(cells.val[h]) # <<>>
           columns ==
             [f \in CardFields |->
                CASE f = "name" -> {H.name}
                  [] f = "hp" -> {H.hp, H.hp_str}
                  [] f = "types" -> {H.types, H.type}
                  [] f = "rarity" -> {H.rarity}
                  [] f = "set_name" -> {H.set_name, H.set}
                  [] f = "set_id" -> {H.set_id, H.setId}
                  [] f = "number" -> {H.number, H.card_number}
                  [] f = "artist" -> {H.artist}
                  [] f = "ability_name" -> {H.ability_name, H.abilities_0_name}
                  [] f = "ability_text" -> {H.ability_text, H.abilities_0_text}
                  [] f = "attacks" -> {h \in Range(cells.keys) : StartsWith(h, AttacksPrefix)}
                  [] f = "weaknesses" -> {H.weaknesses}
                  [] f = "resistances" -> {H.resistances}
                  [] f = "retreat_cost" -> {H.retreat_cost, H.retreat}
                  [] f = "image_path" -> {H.image_path, H.Imagem, H.imagem}
                  [] f = "image_url" -> {H.image_url, H.images_small}
                  [] OTHER -> {}]
           found ==
             guess_local_image(root, cur'.loaded.set_id, cur'.loaded.number) # {None}
       IN  \A f \in CardFields :
             (/\ \A h \in columns[f] : ~filled(h)
              /\ f = "image_path" => ~found)
             => cur'.card[f] = cur'.loaded[f]]_vars

\* C2: an integrity violation at a row discards that row's change only:
\* what the earlier rows of the file have written stays in the open
\* transaction, for the final commit to persist.
C2_IntegrityErrorKeepsEarlierRows ==
  [][(/\ pc = "flush"
      /\ IntegrityViolation(View(db, txIns, txUpd), FlushRow)
      /\ pc' = "rows")
     => (txIns' = txIns /\ txUpd' = txUpd)]_vars

\* C3: a row whose flush raises an integrity violation adds one to skipped,
\* appends exactly one errors entry with the row's 1-based index and the
\* database's message, adds to neither created nor updated, and the loop
\* goes on to the next row: import_csv does not raise.
C3_IntegrityErrorSkipsRow ==
  [][(/\ pc = "flush"
      /\ IntegrityViolation(View(db, txIns, txUpd), FlushRow)
      /\ pc' # pc)
     => /\ stats'.skipped = stats.skipped + 1
        /\ Len(stats'.errors) = Len(stats.errors) + 1
        /\ SubSeq(stats'.errors, 1, Len(stats.errors)) = stats.errors
        /\ stats'.errors[Len(stats'.errors)].row = index + 1
        /\ stats'.errors[Len(stats'.errors)].error \notin
             {"Missing set_id or number", "Missing name"}
        /\ stats'.created = stats.created
        /\ stats'.updated = stats.updated
        /\ outcomes' = Append(outcomes, "skipped")
        /\ pc' = "rows"
        /\ index' = index + 1]_vars

\* An import that returned, with a row skipped for an integrity violation
\* and a later row classified after it.
C3_ReturnedAfterIntegrityError ==
  /\ pc = "done"
  /\ \E i \in DOMAIN stats.errors :
       /\ stats.errors[i].error = "UNIQUE constraint failed: cards.set_id, cards.number"
       /\ stats.errors[i].row < Len(outcomes)
       /\ outcomes[Len(outcomes)] # "skipped"

\* C4: when an exception other than a row's integrity violation propagates,
\* import_csv rolls back and returns no result: the step that raises leaves
\* the store as it is and empties the transaction, and no step of an import
\* but its final commit writes to the store, so nothing of the import is
\* persisted.
C4_ExceptionRollsBackAll ==
  [][/\ (pc # "raised" /\ pc' = "raised")
          => /\ db' = db
             /\ items' = items
             /\ txIns' = {}
             /\ txUpd' = EmptyFn
             /\ sess' = {}
             /\ runs' = runs
             /\ first' = first
     /\ (importVars' # importVars /\ pc' # "done")
          => (db' = db /\ items' = items)]_vars

\* import_csv has raised after rows of the file were counted as persisted.
C4_RaisedAfterRows ==
  /\ pc = "raised"
  /\ stats.created + stats.updated > 0
  /\ runs = 0

C7_SecondImportSameSkips ==
  (pc = "done" /\ runs = 2)
    => /\ stats.created = 0
       /\ stats.updated = Len(file.rows) - stats.skipped
       /\ stats.skipped = first.skipped
       /\ stats.errors = first.errors

\* C7 amended: the second import returns created = 0 and updated = rows -
\* skipped; its errors list is the first import's without the "Missing name"
\* entries of the rows whose key the first import left in the store (those
\* rows update the card the second time), and skipped counts that list.
C7_SecondImportConverges ==
  (pc = "done" /\ runs = 2)
    => LET stored(e) ==
             LET payload == Prepared(file.rows[e.row]).payload
             IN  \E c \in db : KeyOf(c) = <<RowSetId(payload), RowNumber(payload)>>
           kept(e) == ~(e.error = "Missing name" /\ stored(e))
       IN  /\ stats.created = 0
           /\ stats.updated = Len(file.rows) - stats.skipped
           /\ stats.errors = SelectSeq(first.errors, kept)
           /\ stats.skipped = Len(stats.errors)

\* A second import has returned with rows updated and with fewer rows
\* skipped than the first.
C7_SecondImportSkipsFewer ==
  /\ pc = "done"
  /\ runs = 2
  /\ stats.updated > 0
  /\ stats.skipped < first.skipped

C9_DuplicateCreateRejected ==
  [][/\ \A r \in Requests :
          (/\ r.op = "create"
           /\ r \notin DOMAIN replies
           /\ r \in DOMAIN replies'
           /\ \E c \in db : KeyOf(c) = <<r.fields["set_id"], r.fields["numero"]>>)
          => (replies'[r] = 409 /\ db' = db /\ items' = items)
     /\ \A o \in legacy' :
          (\A p \in legacy : p["id"] # o["id"])
          => ~\E p \in legacy : p["set_id"] = o["set_id"] /\ p["numero"] = o["numero"]]_vars

\* A create request was answered 409 and the store has the one card of its
\* key, which is not the request's.
C9_ConflictAnswered ==
  \E r \in DOMAIN replies :
    /\ r.op = "create"
    /\ replies[r] = 409
    /\ \E c \in db :
         /\ KeyOf(c) = <<r.fields["set_id"], r.fields["numero"]>>
         /\ c.name # r.fields["nome"]
         /\ \A d \in db : KeyOf(d) = KeyOf(c) => d = c

\* C10: once a row of the file has been classified created, every later row
\* of the file with the same complete key finds the card and is classified
\* updated, so that a key is created once.
C10_SameKeyCreatedOnce ==
  \A i, j \in DOMAIN outcomes :
    LET first_row  == Prepared(file.rows[i]).payload
        second_row == Prepared(file.rows[j]).payload
    IN  (/\ i < j
         /\ Truthy(RowSetId(first_row))
         /\ Truthy(RowNumber(first_row))
         /\ RowSetId(second_row) = RowSetId(first_row)
         /\ RowNumber(second_row) = RowNumber(first_row)
         /\ outcomes[i] = "created")
        => outcomes[j] = "updated"

\* C11: whenever a call of import_csv has ended, by returning (with rows
\* skipped or not) or by raising while sniffing, while making the session or
\* while processing rows, every file handle it opened has been closed after
\* it was opened and every session it made has been closed after it was made.
C11_ExitClosesHandleAndSession ==
  pc \in {"done", "raised"} =>
    \A i \in DOMAIN log :
      /\ log[i] = "open" => \E j \in DOMAIN log : j > i /\ log[j] = "close_handle"
      /\ log[i] = "session" => \E j \in DOMAIN log : j > i /\ log[j] = "close_session"

\* A call that raised while processing rows, after a row was skipped: its
\* session and its handle had been opened.
C11_RaisedWithSessionOpened ==
  /\ pc = "raised"
  /\ stats.skipped > 0
  /\ \E i \in DOMAIN log : log[i] = "session"
  /\ \E i \in DOMAIN log : log[i] = "open"

\* C12: a call of import_csv makes at most one session; a call that has
\* returned has made exactly one and committed exactly once, as the step
\* that follows the last row; a call that has not returned (it is running or
\* it raised) has committed nothing; and no other step of the call changes
\* the committed store.
C12_OneSessionOneCommit ==
  /\ [](/\ Cardinality({i \in DOMAIN log : log[i] = "session"}) <= 1
        /\ pc = "done" =>
             /\ Cardinality({i \in DOMAIN log : log[i] = "session"}) = 1
             /\ Cardinality({i \in DOMAIN log : log[i] = "commit"}) = 1
        /\ pc # "done" => \A i \in DOMAIN log : log[i] # "commit")
  /\ [][(importVars' # importVars /\ db' # db) =>
          /\ pc = "rows" /\ pc' = "done"
          /\ index = Len(file.rows)
          /\ log' = Returned(log)]_vars

\* A call that returned after it had created two cards: they are in the
\* store.
C12_ReturnedAfterTwoRows ==
  /\ pc = "done"
  /\ stats.created >= 2
  /\ Cardinality(db) >= 2

\* C13: no call of import_csv lets a UnicodeDecodeError out: a file that
\* does not decode in the detected encoding is read again as Latin-1 and
\* the import completes.
C13_DecodeErrorNeverRaised ==
  \A i \in DOMAIN log : log[i] # "raise UnicodeDecodeError"

\* C14: the step by which import_csv raises FileNotFoundError for a path
\* that does not exist has detected no encoding, opened no file and made no
\* session before it, and leaves the store (committed or pending) as it was.
C14_MissingFileRaisesFirst ==
  [][(/\ log' # log
      /\ Len(log') > 0
      /\ log'[Len(log')] = "raise FileNotFoundError") =>
       /\ \A i \in DOMAIN log' : log'[i] \notin {"detect_encoding", "open", "session"}
       /\ UNCHANGED <<db, items, legacy, sess, txIns, txUpd>>]_vars

\* import_csv has raised FileNotFoundError against a store that holds a card.
C14_MissingFileWithCards ==
  /\ pc = "raised"
  /\ Len(log) > 0
  /\ log[Len(log)] = "raise FileNotFoundError"
  /\ db # {}

\* C15: at every point of a call, and in what it returns, skipped is the
\* number of entries of errors, created + updated + skipped is the number
\* of rows processed so far, and the row values of errors are row numbers
\* counted from 1, in strictly increasing order.
C15_StatsAccountForRows ==
  /\ stats.skipped = Len(stats.errors)
  /\ stats.created + stats.updated + stats.skipped = index
  /\ \A i \in DOMAIN stats.errors : stats.errors[i].row \in 1..index
  /\ \A i, j \in DOMAIN stats.errors : i < j => stats.errors[i].row < stats.errors[j].row

\* A call that returned after it created a card from the first row and
\* skipped the second and the third.
C15_CreatedThenTwoSkipped ==
  /\ pc = "done"
  /\ stats.created = 1
  /\ Len(stats.errors) = 2
  /\ stats.errors[1].row = 2
  /\ stats.errors[2].row = 3

\* C16: for every list-like field and every list of tokens, the cell with
\* the tokens joined by "|" and the cell with the tokens as a JSON array
\* literal are stored as the same text.
C16_PipeAndJsonStoredAlike ==
  out.op = "tokens" => out.pipe = out.json

\* C17: every non-blank list cell that is not a JSON array literal is
\* stored as the JSON array of its "|"-separated tokens, trimmed, the empty
\* ones dropped.
C17_NonArrayCellStoredAsTokens ==
  (/\ out.op = "cell"
   /\ strip(arg.cell) # <<>>
   /\ ~JsonLoads(strip(arg.cell)).isList) =>
    LET pieces == split(strip(arg.cell), "|")
    IN  out.stored = DumpsList(NonBlank([i \in DOMAIN pieces |-> strip(pieces[i])]))

\* The groups of a row of attack columns are those of its filled columns:
\* one group for each index that has a non-blank cell and no index twice,
\* and in each group exactly the attributes of the index's non-blank cells,
\* each with its cell's text.
AttackGroupsMatchCells ==
  LET filled == {k \in DOMAIN arg.cols : strip(arg.cols[k].cell) # <<>>}
  IN  /\ {out.groups[i].index : i \in DOMAIN out.groups} = {arg.cols[k].index : k \in filled}
      /\ Len(out.groups) = Cardinality({arg.cols[k].index : k \in filled})
      /\ \A i \in DOMAIN out.groups :
           LET own == {k \in filled : arg.cols[k].index = out.groups[i].index}
               obj == out.groups[i].payload
           IN  /\ Range(obj.keys) = {arg.cols[k].attribute : k \in own}
               /\ Len(obj.keys) = Cardinality(own)
               /\ \A k \in own : obj.val[arg.cols[k].attribute] = strip(arg.cols[k].cell)

\* C18 as stated: for every row the stored attacks value is a JSON array,
\* with exactly one object per index that has a non-empty cell, each object
\* holding exactly the attributes of the non-empty cells with their values.
C18_AttacksAlwaysArray ==
  out.op = "attacks" =>
    /\ out.stored = DumpsDicts([i \in DOMAIN out.groups |-> out.groups[i].payload])
    /\ AttackGroupsMatchCells

\* C18 amended: for a row in which some attack cell is non-empty the stored
\* attacks value is the JSON array with exactly one object per index that
\* has a non-empty cell, each object holding exactly the attributes of the
\* non-empty cells with their values; for a row in which none is, the
\* stored value is None and not an array.
C18_OneObjectPerFilledIndex ==
  out.op = "attacks" =>
    /\ out.stored = IF \A k \in DOMAIN arg.cols : strip(arg.cols[k].cell) = <<>>
                    THEN None
                    ELSE DumpsDicts([i \in DOMAIN out.groups |-> out.groups[i].payload])
    /\ AttackGroupsMatchCells

\* A row with two filled attributes under one index, a filled one under
\* another index, stored as two objects.
C18_TwoObjectsFromThreeCells ==
  /\ out.op = "attacks"
  /\ Len(arg.cols) = 3
  /\ \A k \in DOMAIN arg.cols : strip(arg.cols[k].cell) # <<>>
  /\ Len(out.groups) = 2
  /\ out.stored # None

\* C19 as stated: the attack objects are in the lexicographic order of
\* their index tokens, and that order is the order in which the indices
\* first appear among the row's filled columns.
C19_LexicographicIsFirstAppearance ==
  out.op = "attacks" =>
    \A i, j \in DOMAIN out.groups : i < j =>
      /\ LexLess(out.groups[i].index, out.groups[j].index)
      /\ \E k \in DOMAIN arg.cols :
           /\ strip(arg.cols[k].cell) # <<>>
           /\ arg.cols[k].index = out.groups[i].index
           /\ \A l \in 1..k :
                strip(arg.cols[l].cell) # <<>> => arg.cols[l].index # out.groups[j].index

\* C19 amended: the attack objects are in the lexicographic order of their
\* index tokens, whatever the order of the columns: for the indices 2 and
\* 10 the object of 10 comes first, also when the columns of 2 come first.
C19_LexicographicOrder ==
  out.op = "attacks" =>
    /\ \A i, j \in DOMAIN out.groups : i < j =>
         LexLess(out.groups[i].index, out.groups[j].index)
    /\ {out.groups[i].index : i \in DOMAIN out.groups} = {<<"2">>, <<"1", "0">>} =>
         out.groups[1].index = <<"1", "0">>

\* A row whose filled columns have index 2 and then index 10, stored with
\* the object of 10 first.
C19_TwoThenTen ==
  /\ out.op = "attacks"
  /\ Len(arg.cols) = 2
  /\ arg.cols[1].index = <<"2">>
  /\ arg.cols[2].index = <<"1", "0">>
  /\ \A k \in DOMAIN arg.cols : strip(arg.cols[k].cell) # <<>>
  /\ Len(out.groups) = 2
  /\ out.groups[1].index = <<"1", "0">>

\* C20: for each pair of header names of the input interface, the row that
\* gives a value under the second name gets the same outcome and leaves the
\* same card as the row that gives the value under the first name.
C20_AliasHeaderSameAsPrimary ==
  out.op = "alias" => out.alias = out.primary

\* ------------------------------------------------- the API on its own
\* The collection endpoints and the ownership flag of the card endpoints,
\* with requests that can be sent any number of times while no import runs.
\* The requests name the cards 1 and 2, which seeding or POST /cards can
\* store, or the card 3, which is never stored.
\* Item ids are handed out up to MaxItems.
MaxItems == 3

\* _card_to_pt_schema: possui of the card in the response.
possui(owned, card_id) == \E i \in owned : i.card_id = card_id /\ i.quantity > 0

\* create_collection_item without the test that the card is stored.
create_collection_item_unchecked(cards, owned, card_id, quantity, for_trade) ==
  IF quantity < 1 THEN [status |-> 422, items |-> owned]
  ELSE [status |-> 201, items |-> owned \cup {NewItem(owned, card_id, quantity, for_trade)}]

\* POST /collection: CollectionCreate rejects a quantity below 1 before the
\* handler runs.
create_collection_item(cards, owned, card_id, quantity, for_trade) ==
  IF quantity < 1 THEN [status |-> 422, items |-> owned]
  ELSE IF ~\E c \in cards : c.id = card_id THEN [status |-> 404, items |-> owned]
  ELSE [status |-> 201, items |-> owned \cup {NewItem(owned, card_id, quantity, for_trade)}]

\* PATCH /collection/{item_id}/trade
toggle_trade_flag(owned, item_id, for_trade) ==
  IF ~\E i \in owned : i.id = item_id THEN [status |-> 404, items |-> owned]
  ELSE [status |-> 200,
        items  |-> {IF i.id = item_id THEN [i EXCEPT !.for_trade = for_trade] ELSE i :
                      i \in owned}]

\* POST /cards with or without possui.
PostCards ==
  \E owned \in BOOLEAN :
    \E res \in {create_card(db, items, {},
                            [nome |-> Cell.Eevee, set_id |-> T.base, numero |-> T.n46],
                            owned)} :
    \E id \in {IF res.status = 201 THEN NextId(db, {}) ELSE 0} :
        /\ \A i \in res.items : i.id <= MaxItems
        /\ db' = res.cards
        /\ items' = res.items
        /\ out' = [op |-> "POST /cards", status |-> res.status, id |-> id,
                   possui |-> IF owned THEN "true" ELSE "false",
                   reported |-> possui(res.items, id)]
        /\ UNCHANGED <<legacy, root, replies, importVars, arg>>

\* PATCH /cards/{card_id} with possui true, false or left out.
PatchCards ==
  \E card_id \in 1..3, owned \in {"unset", "true", "false"} :
    \E res \in {update_card_endpoint(db, items, card_id, [raridade |-> T.Common], owned)} :
        /\ \A i \in res.items : i.id <= MaxItems
        /\ db' = res.cards
        /\ items' = res.items
        /\ out' = [op |-> "PATCH /cards", status |-> res.status, id |-> card_id,
                   possui |-> owned, reported |-> possui(res.items, card_id)]
        /\ UNCHANGED <<legacy, root, replies, importVars, arg>>

\* POST /collection
PostCollection ==
  /\ \E card_id \in 1..3, quantity \in {0, 2} :
       \E res \in {create_collection_item(db, items, card_id, quantity, FALSE)} :
           /\ \A i \in res.items : i.id <= MaxItems
           /\ items' = res.items
           /\ out' = [op |-> "POST /collection", status |-> res.status, id |-> card_id,
                      possui |-> "unset", reported |-> possui(res.items, card_id)]
           /\ UNCHANGED <<db, legacy, root, replies, importVars, arg>>

\* PATCH /collection/{item_id}/trade
PatchCollectionTrade ==
  \E item_id \in 1..MaxItems, for_trade \in BOOLEAN :
    \E res \in {toggle_trade_flag(items, item_id, for_trade)} :
        /\ items' = res.items
        /\ out' = [op |-> "PATCH /collection/trade", status |-> res.status, id |-> item_id,
                   possui |-> "unset", reported |-> FALSE]
        /\ UNCHANGED <<db, legacy, root, replies, importVars, arg>>

InitApi ==
  /\ Untouched
  /\ root = [exists |-> FALSE, files |-> {}]
  /\ arg = NoArg

NextApi ==
  \/ Seed
  \/ PostCards
  \/ PatchCards
  \/ PostCollection
  \/ PatchCollectionTrade

SpecApi == InitApi /\ [][NextApi]_vars

\* C21: whenever a row carries an image reference under image_path, Imagem
\* or imagem, the image_path written to the card is what resolving the
\* reference against the image directory gives, and an image_path the row
\* has written names a file that exists there.
C21_ExplicitReferenceResolved ==
  (out.op = "image" /\ strip(arg.cell) # <<>>) =>
    \A stored \in {out.primary.card.image_path, out.alias.card.image_path} :
      LET resolved == resolve_image_reference(root, arg.cell)
      IN  /\ resolved # None => stored = resolved
          /\ stored # (IF arg.existing THEN Cell.old_png ELSE None) =>
                root.exists /\ stored \in root.files

\* The file the stated order of trial gives for a key: the base names in the
\* order sanitized number, its digits, the digits padded to 3 and to 4, its
\* letters and digits; per base name the three patterns, per pattern the
\* four extensions.
StatedGuess(files, set_id, number) ==
  LET sn     == sanitized_number(number)
      digits == Keep(sn, DigitChars)
      alnum  == Keep(sn, DigitChars \cup LowerChars \cup UpperChars)
      order  == <<sn>>
                \o (IF digits # <<>> THEN <<digits, zfill(digits, 3), zfill(digits, 4)>> ELSE <<>>)
                \o (IF alnum # <<>> THEN <<alnum>> ELSE <<>>)
      found  == [k \in DOMAIN order |-> FirstIn(TriedNames(set_id, order[k]), files)]
  IN  IF \A k \in DOMAIN found : found[k] = None THEN None
      ELSE found[CHOOSE k \in DOMAIN found :
                   found[k] # None /\ \A j \in 1..(k - 1) : found[j] = None]

\* C22: guess_local_image for a key with an existing image directory
\* returns the first existing file in the stated order of trial, so the
\* same file on every call.
C22_GuessIsEarliestInStatedOrder ==
  (out.op = "guess" /\ root.exists /\ Truthy(arg.number)) =>
    out.result = StatedGuess(root.files, arg.set_id, arg.number)

\* C23: a row whose image reference, if it has one, resolves to no file,
\* and for whose key no image can be guessed, is still created or updated,
\* and it writes no image_path: a new card has none, a stored card keeps
\* the one it had.
C23_NoImageLeavesImagePathAlone ==
  (/\ out.op = "image"
   /\ resolve_image_reference(root, arg.cell) = None
   /\ guess_local_image(root, T.base, T.n46) = {None}) =>
    \A result \in {out.primary, out.alias} :
      /\ result.outcome = (IF arg.existing THEN "updated" ELSE "created")
      /\ result.card.image_path = (IF arg.existing THEN Cell.old_png ELSE None)

\* C24: for an existing image directory and a relative reference r,
\* resolve_image_reference returns r when the file r exists there, else,
\* when r has no extension, r with the first of .png, .jpg, .jpeg, .webp
\* for which the file exists, else None; a result other than None names an
\* existing file.
C24_ResolveByExistence ==
  (out.op = "resolve" /\ root.exists /\ arg.reference # None /\ strip(arg.reference) # <<>>) =>
    LET r        == strip(arg.reference)
        With(e)  == r \o e
        png      == With(<<".", "p", "n", "g">>)
        jpg      == With(<<".", "j", "p", "g">>)
        jpeg     == With(<<".", "j", "p", "e", "g">>)
        webp     == With(<<".", "w", "e", "b", "p">>)
        expected == IF r \in root.files THEN r
                    ELSE IF \E k \in DOMAIN r : r[k] = "." THEN None
                    ELSE IF png \in root.files THEN png
                    ELSE IF jpg \in root.files THEN jpg
                    ELSE IF jpeg \in root.files THEN jpeg
                    ELSE IF webp \in root.files THEN webp
                    ELSE None
    IN  /\ out.result = expected
        /\ out.result # None => out.result \in root.files

\* A reference without extension resolved to the .png file although the
\* .jpg file exists as well.
C24_PngBeforeJpg ==
  /\ out.op = "resolve"
  /\ arg.reference = Cell.base_58
  /\ {Cell.base_58_png, Cell.base_58_jpg} \subseteq root.files
  /\ out.result = Cell.base_58_png

\* C25: after any sequence of seeding and API requests every stored
\* collection item has a quantity of at least 1 and the card it names is
\* stored; a POST /collection with a valid body naming a card that is not
\* stored answers 404 and stores nothing.
C25_ItemsValid ==
  /\ [](\A i \in items : i.quantity >= 1 /\ \E c \in db : c.id = i.card_id)
  /\ [][(/\ out'.op = "POST /collection"
         /\ out' # out
         /\ out'.status # 422
         /\ ~\E c \in db : c.id = out'.id)
        => (out'.status = 404 /\ items' = items /\ db' = db)]_vars

\* Items are stored, one of them by POST /collection, and a POST
\* /collection for a card that is not stored has just been answered.
C25_MissingCardAfterItems ==
  /\ out.op = "POST /collection"
  /\ out.status = 404
  /\ \E i \in items : i.quantity = 2
  /\ \E i \in items : i.for_trade

\* C26: the possui a PATCH /cards answers is true exactly when the card
\* has an item of positive quantity.  After a successful PATCH with possui
\* true the card has an item and possui is true, and the request adds no
\* item to a card that has one; after possui false the card has no item
\* and possui is false; a PATCH without possui leaves the items as they
\* were.
C26_PossuiFollowsItems ==
  /\ []((out.op = "PATCH /cards" /\ out.status = 200) =>
          LET held == {i \in items : i.card_id = out.id}
          IN  /\ out.reported <=> \E i \in held : i.quantity > 0
              /\ out.possui = "true" => held # {} /\ out.reported
              /\ out.possui = "false" => held = {} /\ ~out.reported)
  /\ [][(out'.op = "PATCH /cards" /\ out'.status = 200) =>
          /\ (out'.possui = "true" /\ \E i \in items : i.card_id = out'.id) => items' = items
          /\ out'.possui = "unset" => items' = items]_vars

\* A PATCH with possui true has been answered for a card whose one item
\* POST /collection had stored before.
C26_PossuiTrueOnOwnedCard ==
  /\ out.op = "PATCH /cards"
  /\ out.status = 200
  /\ out.possui = "true"
  /\ {i.quantity : i \in {j \in items : j.card_id = out.id}} = {2}
  /\ Cardinality({j \in items : j.card_id = out.id}) = 1

\* C27: after a POST /import/csv with an uploaded file the temporary file
\* no longer exists, whether the import succeeded, the import raised, or
\* reading or writing the upload failed; a request with neither file nor
\* path is answered 400 without import_csv being called.
C27_TempFileRemoved ==
  out.op = "upload" =>
    /\ arg.csv_file => ~out.response.tmp_exists
    /\ (~arg.csv_file /\ ~arg.csv_path) =>
         (out.response.status = 400 /\ ~out.response.imported)

\* C28: when import_csv returns, every row it has counted created or
\* updated has a committed card under its key, with the name of the last
\* counted row of that key that has one.
C28_CountedRowsCommitted ==
  [][(pc = "rows" /\ pc' = "done") =>
       \A i \in DOMAIN outcomes :
         LET Payload(k) == Prepared(file.rows[k]).payload
             Key(k)     == <<RowSetId(Payload(k)), RowNumber(Payload(k))>>
             named      == {k \in DOMAIN outcomes :
                              /\ outcomes[k] \in {"created", "updated"}
                              /\ Key(k) = Key(i)
                              /\ Truthy(Get(Payload(k), H.name))}
         IN  outcomes[i] \in {"created", "updated"} =>
               \E c \in db' :
                 /\ KeyOf(c) = Key(i)
                 /\ named # {} => c.name = Get(Payload(Max(named)), H.name)]_vars

\* C29: a row with more cells than the header has columns, or with fewer,
\* never makes import_csv raise: a call that raises while it reads a row
\* has read a row with as many cells as the header.
C29_RaggedRowNeverRaises ==
  [][(pc = "rows" /\ pc' = "raised" /\ Len(file'.rows) > index) =>
       Len(file'.rows[index + 1]) = Len(file'.header)]_vars

\* C30: importing the same file a second time, with the image directory
\* unchanged and no other writer, leaves the set of cards and every field
\* of every card as the first import left them.
C30_SecondImportChangesNothing ==
  [][(pc = "rows" /\ pc' = "done" /\ runs = 1) => db' = db]_vars

====
